---- MODULE Spec2Model ----
(***************************************************************************)
(* expo-accessibility-service: the listener registry and event fan-out of  *)
(* AccessibilityService.kt and the service-name resolver of                *)
(* ExpoAccessibilityServiceModule.kt.                                      *)
(*                                                                         *)
(* Two execution contexts share the registry: the OS callback context      *)
(* (onAccessibilityEvent -> notifyListeners -> listener callbacks) and the *)
(* application context (addEventListener, removeEventListener,             *)
(* setEventListener).  Every call on the synchronized set is one atomic    *)
(* step; what the code does between two such calls is interleavable.       *)
(*                                                                         *)
(* Strings are sequences of one-character strings.                         *)
(***************************************************************************)
EXTENDS Integers, Sequences, FiniteSets, TLC

\* ---------------------------------------------------------------- bounds
NumListeners == 2
MaxClock == 1

Listeners == 1..NumListeners

\* A Kotlin null reference of type String? / CharSequence? / EventListener?.
NULL == <<"<null>">>
NoListener == 0

VARIABLES
    eventListeners,  \* companion object: the synchronized LinkedHashSet, in insertion order
    pcApp,           \* application context: "idle", "setAdd" (between clear and add), "ret"
    appCall,         \* the application call in progress or just completed:
                     \* op, arg, ret; for setEventListener also pre (the set it
                     \* cleared) and clean (nothing else changed the set meanwhile)
    lastSet,         \* history: argument of the last setEventListener that ran
                     \* undisturbed, while the set is as it left it; else NotSet
    pcSvc,           \* OS callback context: "idle", "call", "loop", "dropped", "thrown"
    event,           \* onAccessibilityEvent: the event being handled
    packageName,     \* notifyListeners argument
    className,       \* notifyListeners argument
    timestamp,       \* notifyListeners argument; kept after the return as the
                     \* timestamp of the last forwarded event (0 before the first)
    listeners,       \* notifyListeners: the snapshot `listeners`
    idx,             \* notifyListeners: position of forEach in the snapshot
    invoked,         \* history: the onAppChanged calls made by the current dispatch
    threw,           \* history: listeners whose callback threw in the current dispatch
    regAtSnapshot,   \* history: the registered set when the snapshot was taken
    lateAdded,       \* history: listeners absent at the snapshot and added since
    clock,           \* System.currentTimeMillis()
    context,         \* appContext.reactContext: packageName and the package's manifest
    serviceClassName,\* ExpoAccessibilityServiceModule.serviceClassName (String?)
    pcRes,           \* module function queue: "idle", "ret"
    resolverCall,    \* the module function just run: op, what it read, what it resolved
    emitter,         \* JS: the native module object's registrations, oldest first
    subscriptions,   \* JS: the subscription objects addAccessibilityEventListener returned
    jsCall,          \* JS: the last call of index.ts: op, subscription, native calls made
    mutex,           \* who holds the monitor of eventListeners between two steps
    pcThread,        \* two callers of the registry: each "idle", "setAdd" or "ret"
    threadCall,      \* their calls: op, arg, ret, and what the registry held before
    service,         \* the AccessibilityService instance: "none", "connected",
                     \* "unbound", "destroyed"
    module,          \* the module instance that registers itself as a listener:
                     \* "none", "created" (after OnCreate), "destroyed"
    sent             \* the last sendEvent call of the module's onAppChanged

vars == <<eventListeners, pcApp, appCall, lastSet, pcSvc, event, packageName, className,
          timestamp, listeners, idx, invoked, threw, regAtSnapshot, lateAdded, clock,
          context, serviceClassName, pcRes, resolverCall,
          emitter, subscriptions, jsCall, mutex, pcThread, threadCall, service,
          module, sent>>

jsVars == <<emitter, subscriptions, jsCall>>

appVars == <<pcApp, appCall>>
threadVars == <<pcThread, threadCall>>
moduleVars == <<module, sent>>
registryVars == <<eventListeners, pcApp, appCall, lastSet, pcSvc, event, packageName,
                  className, timestamp, listeners, idx, invoked, threw, regAtSnapshot,
                  lateAdded, clock, mutex, threadVars, service, moduleVars>>
resolverVars == <<context, serviceClassName, pcRes, resolverCall>>
\* What the steps of the resolver, and of the registry, leave alone.
regVars == <<registryVars, jsVars>>
resVars == <<resolverVars, jsVars, mutex, threadVars, service, moduleVars>>
svcVars == <<pcSvc, event, packageName, className, timestamp, listeners, idx,
             invoked, threw, regAtSnapshot>>

\* ------------------------------------------------------- the listener set
Range(s) == {s[i] : i \in 1..Len(s)}

\* MutableSet.contains
contains(s, l) == l \in Range(s)

\* add without the presence test
add_always(s, l) == Append(s, l)

\* MutableSet.add on a LinkedHashSet: appends when absent, no-op when present.
add(s, l) == IF contains(s, l) THEN s ELSE Append(s, l)

\* remove that drops nothing
remove_nothing(s, l) == s

\* MutableSet.remove
remove(s, l) == SelectSeq(s, LAMBDA x : x # l)

\* clear that keeps the first element
clear_partial(s) == IF Len(s) = 0 THEN s ELSE <<s[1]>>

\* MutableSet.clear
clear(s) == <<>>

\* a copy that loses the last element
toList_short(s) == IF Len(s) = 0 THEN s ELSE SubSeq(s, 1, Len(s) - 1)

\* eventListeners.toList() under synchronized(eventListeners)
toList(s) == s

\* eventListeners.firstOrNull()
firstOrNull(s) == IF Len(s) = 0 THEN NoListener ELSE s[1]

\* ------------------------------------------------------------------ events
TYPE_WINDOW_STATE_CHANGED == "TYPE_WINDOW_STATE_CHANGED"
TYPE_VIEW_CLICKED == "TYPE_VIEW_CLICKED"

\* Values of event.packageName / event.className: null, empty, non-empty.
EventStrings == {NULL, <<>>, <<"a">>}

NullEvent == [eventType |-> "null", packageName |-> NULL, className |-> NULL]
NoEvent == [eventType |-> "none", packageName |-> NULL, className |-> NULL]

Events ==
    {NullEvent} \cup
    [eventType : {TYPE_WINDOW_STATE_CHANGED, TYPE_VIEW_CLICKED},
     packageName : EventStrings, className : EventStrings]

\* String?.isNullOrEmpty()
isNullOrEmpty(s) == s = NULL \/ Len(s) = 0

\* What a listener's onAppChanged does when invoked: it may re-enter the
\* registry (addEventListener / removeEventListener on some listener) and then
\* returns normally or throws an Exception.
Behaviours ==
    [act : {"none"}, arg : {NoListener}, outcome : {"normal", "Exception"}] \cup
    [act : {"add", "remove"}, arg : Listeners, outcome : {"normal", "Exception"}]

\* The two execution contexts of the concurrent registry calls.
Threads == {"A", "B"}
Other(t) == CHOOSE u \in Threads : u # t

\* A registry call of one of them: present tells whether arg was registered
\* when the call ran, last that no registry call ran since, follows that it
\* ran directly after the other context's call, which had not returned.
NoThreadCall ==
    [op |-> "none", arg |-> NoListener, ret |-> FALSE, present |-> FALSE,
     last |-> FALSE, follows |-> FALSE, snapshot |-> <<>>,
     listener |-> NoListener, modified |-> FALSE, thrown |-> FALSE]

\* No sendEvent call was made.
NoSend ==
    [name |-> "", packageName |-> NULL, className |-> NULL, timestamp |-> 0,
     outcome |-> "none"]

NoCall ==
    [op |-> "none", arg |-> NoListener, ret |-> FALSE, pre |-> <<>>, clean |-> TRUE,
     listener |-> NoListener]
NotSet == 0 - 1

RegistryInit ==
    /\ eventListeners = <<>>
    /\ pcApp = "idle"
    /\ appCall = NoCall
    /\ lastSet = NotSet
    /\ pcSvc = "idle"
    /\ event = NoEvent
    /\ packageName = NULL
    /\ className = NULL
    /\ timestamp = 0
    /\ listeners = <<>>
    /\ idx = 1
    /\ invoked = <<>>
    /\ threw = {}
    /\ regAtSnapshot = {}
    /\ lateAdded = {}
    /\ clock = 0
    /\ mutex = "none"
    /\ pcThread = [t \in Threads |-> "idle"]
    /\ threadCall = [t \in Threads |-> NoThreadCall]
    /\ service = "none"
    /\ module = "none"
    /\ sent = NoSend

\* --------------------------------------------------------------- resolver
MaxServices == 2
MaxTokens == 2

\* Class names and package names the resolver is exercised with.
X == <<"X">>
XY == <<"X", "Y">>
MyAccessibilityService ==
    <<"M", "y", "A", "c", "c", "e", "s", "s", "i", "b", "i", "l", "i", "t", "y",
      "S", "e", "r", "v", "i", "c", "e">>
PackageNames == {<<"p">>, <<"p", "q">>}
ConfigNames == {<<>>, X, XY}

BIND_ACCESSIBILITY_SERVICE == "android.permission.BIND_ACCESSIBILITY_SERVICE"
\* "${packageName}.MyAccessibilityService"
DefaultClassName(pkg) == pkg \o <<".">> \o MyAccessibilityService

\* Services an application of package pkg may declare in its manifest.
ServiceInfos(pkg) ==
    { [name |-> X, permission |-> BIND_ACCESSIBILITY_SERVICE],
      [name |-> XY, permission |-> BIND_ACCESSIBILITY_SERVICE],
      [name |-> DefaultClassName(pkg), permission |-> BIND_ACCESSIBILITY_SERVICE],
      [name |-> X, permission |-> "android.permission.BIND_JOB_SERVICE"] }

SeqsUpTo(S, n) == UNION {[1..k -> S] : k \in 0..n}

\* packageManager.getPackageInfo(packageName, GET_SERVICES): it throws, or
\* packageInfo.services is null, or it is the array of declared services.
Contexts ==
    [packageName : PackageNames, scan : {"throws", "null"}, services : {<<>>}] \cup
    UNION { [packageName : {pkg}, scan : {"ok"},
             services : SeqsUpTo(ServiceInfos(pkg), MaxServices)] : pkg \in PackageNames }

DefaultContext == [packageName |-> <<"p">>, scan |-> "ok", services |-> <<>>]

\* A call of a module function: its inputs (the argument, whether
\* appContext.reactContext is there, what the settings query gave), what it
\* computed, and whether the promise resolves or is rejected.
NoResolverCall ==
    [op |-> "none", arg |-> NULL, reactContext |-> TRUE, enabledServices |-> NULL,
     serviceNames |-> <<>>, detected |-> <<>>, ret |-> FALSE, original |-> FALSE,
     start |-> [step |-> "none", message |-> ""], starts |-> 0, settled |-> <<>>,
     message |-> "", outcome |-> "none"]

\* What opening the settings screen may do: nothing throws, building the
\* Intent throws, or context.startActivity throws.
StartOutcomes ==
    { [step |-> "none", message |-> ""],
      [step |-> "Intent", message |-> "Intent creation failed"],
      [step |-> "startActivity", message |-> "Activity not found"],
      [step |-> "startActivity", message |-> "Permission denied"] }

ResolverStart ==
    /\ serviceClassName = NULL
    /\ pcRes = "idle"
    /\ resolverCall = NoResolverCall

\* No subscription has been made.
NoJsCall ==
    [op |-> "none", sub |-> 0, listener |-> NoListener, eventName |-> "",
     removed |-> <<>>, args |-> <<>>, nativeCalls |-> <<>>,
     native |-> [kind |-> "none", value |-> ""],
     result |-> [kind |-> "none", value |-> ""]]

JsStart ==
    /\ emitter = <<>>
    /\ subscriptions = <<>>
    /\ jsCall = NoJsCall

Init ==
    /\ RegistryInit
    /\ context = DefaultContext
    /\ ResolverStart
    /\ JsStart

ResolverInit ==
    /\ RegistryInit
    /\ context \in Contexts
    /\ ResolverStart
    /\ JsStart

\* "$a/$b"
Slash(a, b) == a \o <<"/">> \o b

\* The colon-separated value of Settings.Secure.ENABLED_ACCESSIBILITY_SERVICES.
RECURSIVE Join(_)
Join(ts) ==
    IF Len(ts) = 0 THEN <<>>
    ELSE IF Len(ts) = 1 THEN ts[1]
    ELSE ts[1] \o <<":">> \o Join(Tail(ts))

\* Entries the OS setting may hold for an application whose package is pkg.
Tokens(pkg) ==
    { Slash(pkg, X),
      Slash(pkg, XY),
      Slash(<<"o">>, X),
      <<" ", "\t">> \o Slash(pkg, X) \o <<" ", "\n">>,
      Slash(pkg, <<"x">>),
      <<>>,
      pkg,
      <<"/">> \o Slash(pkg, X),
      pkg \o <<"/">>,
      Slash(pkg, DefaultClassName(pkg)) }

\* Values Settings.Secure.getString may return: null, "", or a list.
EnabledStrings(pkg) ==
    {NULL, <<>>} \cup {Join(ts) : ts \in (SeqsUpTo(Tokens(pkg), MaxTokens) \ {<<>>})}

\* Settings.Secure.getString throws instead of returning.
QueryThrows == <<"<throws>">>


\* TextUtils.isEmpty(str)
isEmpty(str) == str = NULL \/ Len(str) = 0

\* String.lowercase(), over the letters the model's names are made of.
lowercase(str) ==
    [i \in 1..Len(str) |->
        CASE str[i] = "X" -> "x"
          [] str[i] = "Y" -> "y"
          [] str[i] = "M" -> "m"
          [] str[i] = "A" -> "a"
          [] str[i] = "S" -> "s"
          [] OTHER -> str[i]]

\* String.equals in the place of String.contains.
containsString_equals(str, other) == str = other

\* String.contains(other, ignoreCase = true)
containsString_ignoreCase(str, other) ==
    \E i \in 0..(Len(str) - Len(other)) :
        lowercase(SubSeq(str, i + 1, i + Len(other))) = lowercase(other)

\* String.contains(other): other occurs in str as a substring
containsString(str, other) ==
    \E i \in 0..(Len(str) - Len(other)) : SubSeq(str, i + 1, i + Len(other)) = other

\* private fun isAccessibilityService(serviceInfo)
isAccessibilityService(serviceInfo) ==
    serviceInfo.permission = BIND_ACCESSIBILITY_SERVICE

\* try { ... } catch (e: Exception) { emptyList() } around the manifest scan:
\* is what the scan throws handled there?
scanCatches_nothing(outcome) == FALSE

scanCatches(outcome) == outcome = "Exception"

\* How the body of the try block ends: context.packageManager needs the
\* React context, getPackageInfo may throw.
scanOutcome(ctx, reactContext) ==
    IF ~reactContext \/ ctx.scan = "throws" THEN "Exception" ELSE "normal"

\* getAccessibilityServicesFromManifest without the isAccessibilityService
\* filter.
getAccessibilityServicesFromManifest_unfiltered(ctx) ==
    IF ctx.scan = "throws" THEN <<>>
    ELSE IF ctx.scan = "null" THEN <<>>
    ELSE [i \in 1..Len(ctx.services) |-> ctx.services[i].name]

\* private fun getAccessibilityServicesFromManifest(): List<String>
getAccessibilityServicesFromManifest(ctx) ==
    IF ctx.scan = "throws" THEN <<>>
    ELSE IF ctx.scan = "null" THEN <<>>
    ELSE LET kept == SelectSeq(ctx.services, isAccessibilityService)
         IN [i \in 1..Len(kept) |-> kept[i].name]

\* getServiceNamesToCheck without its third rule.
getServiceNamesToCheck_noFallback(ctx, configured) ==
    IF configured # NULL
    THEN <<Slash(ctx.packageName, configured)>>
    ELSE LET detectedServices == getAccessibilityServicesFromManifest(ctx)
         IN [i \in 1..Len(detectedServices) |->
                 Slash(ctx.packageName, detectedServices[i])]

\* getServiceNamesToCheck keeping only the first detected service.
getServiceNamesToCheck_firstOnly(ctx, configured) ==
    IF configured # NULL
    THEN <<Slash(ctx.packageName, configured)>>
    ELSE LET detectedServices == getAccessibilityServicesFromManifest(ctx)
         IN IF Len(detectedServices) # 0
            THEN <<Slash(ctx.packageName, detectedServices[1])>>
            ELSE <<Slash(ctx.packageName, DefaultClassName(ctx.packageName))>>

\* getServiceNamesToCheck appending the fallback to what rule 2 found.
getServiceNamesToCheck_merged(ctx, configured) ==
    IF configured # NULL
    THEN <<Slash(ctx.packageName, configured)>>
    ELSE LET detectedServices == getAccessibilityServicesFromManifest(ctx)
         IN [i \in 1..Len(detectedServices) |->
                 Slash(ctx.packageName, detectedServices[i])]
            \o <<Slash(ctx.packageName, DefaultClassName(ctx.packageName))>>

\* getServiceNamesToCheck taking an empty name for no name (isNullOrEmpty).
getServiceNamesToCheck_blankUnset(ctx, configured) ==
    IF configured # NULL /\ configured # <<>>
    THEN <<Slash(ctx.packageName, configured)>>
    ELSE LET detectedServices == getAccessibilityServicesFromManifest(ctx)
         IN IF Len(detectedServices) # 0
            THEN [i \in 1..Len(detectedServices) |->
                      Slash(ctx.packageName, detectedServices[i])]
            ELSE <<Slash(ctx.packageName, DefaultClassName(ctx.packageName))>>

\* private fun getServiceNamesToCheck(): List<String>
getServiceNamesToCheck(ctx, configured) ==
    IF configured # NULL
    THEN <<Slash(ctx.packageName, configured)>>
    ELSE LET detectedServices == getAccessibilityServicesFromManifest(ctx)
         IN IF Len(detectedServices) # 0
            THEN [i \in 1..Len(detectedServices) |->
                      Slash(ctx.packageName, detectedServices[i])]
            ELSE <<Slash(ctx.packageName, DefaultClassName(ctx.packageName))>>

\* isAccessibilityServiceEnabled answering true on a null or empty setting.
isAccessibilityServiceEnabled_emptyTrue(ctx, configured, enabledServices) ==
    LET serviceNames == getServiceNamesToCheck(ctx, configured)
    IN IF isEmpty(enabledServices)
       THEN TRUE
       ELSE \E i \in 1..Len(serviceNames) :
                containsString(enabledServices, serviceNames[i])

\* isAccessibilityServiceEnabled asking for every candidate (all, not any).
isAccessibilityServiceEnabled_all(ctx, configured, enabledServices) ==
    LET serviceNames == getServiceNamesToCheck(ctx, configured)
    IN IF isEmpty(enabledServices)
       THEN FALSE
       ELSE \A i \in 1..Len(serviceNames) :
                containsString(enabledServices, serviceNames[i])

\* private fun isAccessibilityServiceEnabled(): Boolean, given what
\* Settings.Secure.getString returned
isAccessibilityServiceEnabled(ctx, configured, enabledServices) ==
    LET serviceNames == getServiceNamesToCheck(ctx, configured)
    IN IF isEmpty(enabledServices)
       THEN FALSE
       ELSE \E i \in 1..Len(serviceNames) :
                containsString(enabledServices, serviceNames[i])

\* The original module's isAccessibilityServiceEnabled(): only the hard-coded
\* "$packageName/${packageName}.MyAccessibilityService" is looked for.
originalIsAccessibilityServiceEnabled(ctx, enabledServices) ==
    LET serviceName == Slash(ctx.packageName, DefaultClassName(ctx.packageName))
    IN IF isEmpty(enabledServices)
       THEN FALSE
       ELSE containsString(enabledServices, serviceName)

\* A dispatch is between its snapshot and its return.
Dispatching == pcSvc = "loop"

\* history: a listener that was not registered at the snapshot got registered.
NoteAdded(before, after) ==
    IF Dispatching
    THEN lateAdded \cup ((Range(after) \ Range(before)) \ regAtSnapshot)
    ELSE lateAdded

\* history: lastSet is forgotten as soon as the set changes again.
KeepSet(before, after) == IF after = before THEN lastSet ELSE NotSet

\* ------------------------------------------------- application context
\* fun addEventListener(listener): Boolean
addEventListener(l) ==
    /\ pcApp = "idle"
    /\ mutex = "none"
    /\ eventListeners' = add(eventListeners, l)
    /\ appCall' = [NoCall EXCEPT !.op = "add", !.arg = l,
                                 !.ret = (eventListeners' # eventListeners)]
    /\ pcApp' = "ret"
    /\ lateAdded' = NoteAdded(eventListeners, eventListeners')
    /\ lastSet' = KeepSet(eventListeners, eventListeners')
    /\ UNCHANGED <<resVars, svcVars, clock>>

\* fun removeEventListener(listener): Boolean
removeEventListener(l) ==
    /\ pcApp = "idle"
    /\ mutex = "none"
    /\ eventListeners' = remove(eventListeners, l)
    /\ appCall' = [NoCall EXCEPT !.op = "remove", !.arg = l,
                                 !.ret = (eventListeners' # eventListeners)]
    /\ pcApp' = "ret"
    /\ lastSet' = KeepSet(eventListeners, eventListeners')
    /\ UNCHANGED <<resVars, svcVars, lateAdded, clock>>

\* setEventListener that does not clear
setEventListener_clear_keeping(l) ==
    /\ pcApp = "idle"
    /\ mutex = "none"
    /\ eventListeners' = eventListeners
    /\ appCall' = [NoCall EXCEPT !.op = "set", !.arg = l, !.pre = eventListeners]
    /\ pcApp' = "setAdd"
    /\ lastSet' = NotSet
    /\ UNCHANGED <<resVars, svcVars, lateAdded, clock>>

\* fun setEventListener(listener?): first statement, eventListeners.clear()
setEventListener_clear(l) ==
    /\ pcApp = "idle"
    /\ mutex = "none"
    /\ eventListeners' = clear(eventListeners)
    /\ appCall' = [NoCall EXCEPT !.op = "set", !.arg = l, !.pre = eventListeners]
    /\ pcApp' = "setAdd"
    /\ lastSet' = NotSet
    /\ UNCHANGED <<resVars, svcVars, lateAdded, clock>>

\* fun setEventListener(listener?): second statement, listener?.let { add(it) }
setEventListener_add ==
    /\ pcApp = "setAdd"
    /\ mutex = "none"
    /\ eventListeners' = IF appCall.arg = NoListener
                         THEN eventListeners
                         ELSE add(eventListeners, appCall.arg)
    /\ pcApp' = "ret"
    /\ lateAdded' = NoteAdded(eventListeners, eventListeners')
    /\ lastSet' = IF appCall.clean THEN appCall.arg ELSE NotSet
    /\ UNCHANGED <<resVars, appCall, svcVars, clock>>

\* The application call returns to its caller.
appReturn ==
    /\ pcApp = "ret"
    /\ pcApp' = "idle"
    /\ appCall' = NoCall
    /\ UNCHANGED <<resVars, eventListeners, lastSet, svcVars, lateAdded, clock>>

\* ------------------------------------------------- OS callback context
\* the filter without the className test
Forwarded_anyClass(ev) ==
    /\ ev # [eventType |-> "null", packageName |-> NULL, className |-> NULL]
    /\ ev.eventType = TYPE_WINDOW_STATE_CHANGED
    /\ ~isNullOrEmpty(ev.packageName)

\* The filter of onAccessibilityEvent: the event is forwarded to notifyListeners.
Forwarded(ev) ==
    /\ ev # NullEvent
    /\ ev.eventType = TYPE_WINDOW_STATE_CHANGED
    /\ ~isNullOrEmpty(ev.packageName)
    /\ ~isNullOrEmpty(ev.className)

\* override fun onAccessibilityEvent(event): up to the call of notifyListeners
\* (the framework delivers events to a connected service only)
onAccessibilityEvent(ev) ==
    /\ pcSvc = "idle"
    /\ service = "connected"
    /\ event' = ev
    /\ IF Forwarded(ev)
       THEN /\ pcSvc' = "call"
            /\ packageName' = ev.packageName
            /\ className' = ev.className
            /\ timestamp' = clock
       ELSE /\ pcSvc' = "dropped"
            /\ UNCHANGED <<packageName, className, timestamp>>
    /\ UNCHANGED <<resVars, eventListeners, appVars, lastSet, listeners, idx, invoked, threw,
                   regAtSnapshot, lateAdded, clock>>

\* notifyListeners with the whole forEach inside synchronized(eventListeners)
notifyListeners_snapshot_locked ==
    /\ pcSvc = "call"
    /\ mutex = "none"
    /\ mutex' = "svc"
    /\ listeners' = toList(eventListeners)
    /\ regAtSnapshot' = Range(eventListeners)
    /\ idx' = 1
    /\ invoked' = <<>>
    /\ threw' = {}
    /\ lateAdded' = {}
    /\ pcSvc' = "loop"
    /\ UNCHANGED <<resolverVars, jsVars, threadVars, service, moduleVars, eventListeners, appVars,
                   lastSet, event, packageName, className, timestamp, clock>>

\* notifyListeners: val listeners = synchronized(eventListeners) { toList() }
notifyListeners_snapshot ==
    /\ pcSvc = "call"
    /\ mutex = "none"
    /\ listeners' = toList(eventListeners)
    /\ regAtSnapshot' = Range(eventListeners)
    /\ idx' = 1
    /\ invoked' = <<>>
    /\ threw' = {}
    /\ lateAdded' = {}
    /\ pcSvc' = "loop"
    /\ UNCHANGED <<resVars, eventListeners, appVars, lastSet, event, packageName, className,
                   timestamp, clock>>

\* no catch around the callback
catches_nothing(outcome) == FALSE

\* catch (e: Exception)
catches(outcome) == outcome = "Exception"

\* The registry after the callback's own registry call, if it makes one.
reenter(s, beh) ==
    CASE beh.act = "add" -> add(s, beh.arg)
      [] beh.act = "remove" -> remove(s, beh.arg)
      [] OTHER -> s

\* forEach over the live set instead of the snapshot
notifyListeners_invoke_live(beh) ==
    /\ pcSvc = "loop"
    /\ idx <= Len(eventListeners)
    /\ invoked' = Append(invoked, [listener |-> eventListeners[idx],
                                   packageName |-> packageName,
                                   className |-> className,
                                   timestamp |-> timestamp])
    /\ eventListeners' = reenter(eventListeners, beh)
    /\ lateAdded' = NoteAdded(eventListeners, eventListeners')
    /\ lastSet' = KeepSet(eventListeners, eventListeners')
    /\ idx' = idx + 1
    /\ threw' = IF beh.outcome = "normal" THEN threw ELSE threw \cup {eventListeners[idx]}
    /\ UNCHANGED <<resVars, appVars, pcSvc, event, packageName, className, timestamp,
                   listeners, regAtSnapshot, clock>>

\* forEach passing over the listeners that are no longer registered
notifyListeners_invoke_skipRemoved(beh) ==
    /\ pcSvc = "loop"
    /\ idx <= Len(listeners)
    /\ IF ~contains(eventListeners, listeners[idx])
       THEN /\ idx' = idx + 1
            /\ UNCHANGED <<resVars, eventListeners, appVars, lastSet, pcSvc, event,
                           packageName, className, timestamp, listeners, invoked,
                           threw, regAtSnapshot, lateAdded, clock>>
       ELSE
           /\ invoked' = Append(invoked, [listener |-> listeners[idx],
                                          packageName |-> packageName,
                                          className |-> className,
                                          timestamp |-> timestamp])
           /\ eventListeners' = reenter(eventListeners, beh)
           /\ lateAdded' = NoteAdded(eventListeners, eventListeners')
           /\ lastSet' = KeepSet(eventListeners, eventListeners')
           /\ pcApp' = pcApp
           /\ appCall' = IF pcApp = "setAdd" /\ eventListeners' # eventListeners
                         THEN [appCall EXCEPT !.clean = FALSE]
                         ELSE appCall
           /\ IF beh.outcome = "normal"
              THEN /\ idx' = idx + 1
                   /\ UNCHANGED <<pcSvc, threw>>
              ELSE /\ threw' = threw \cup {listeners[idx]}
                   /\ IF catches(beh.outcome)
                      THEN /\ idx' = idx + 1
                           /\ UNCHANGED pcSvc
                      ELSE /\ pcSvc' = "thrown"
                           /\ UNCHANGED idx
           /\ UNCHANGED <<resVars, event, packageName, className, timestamp, listeners,
                          regAtSnapshot, clock>>

\* notifyListeners: one iteration of listeners.forEach { try { ... } catch ... }
notifyListeners_invoke(beh) ==
    /\ pcSvc = "loop"
    /\ idx <= Len(listeners)
    /\ invoked' = Append(invoked, [listener |-> listeners[idx],
                                   packageName |-> packageName,
                                   className |-> className,
                                   timestamp |-> timestamp])
    /\ eventListeners' = reenter(eventListeners, beh)
    /\ lateAdded' = NoteAdded(eventListeners, eventListeners')
    /\ lastSet' = KeepSet(eventListeners, eventListeners')
    /\ pcApp' = pcApp
    /\ appCall' = IF pcApp = "setAdd" /\ eventListeners' # eventListeners
                  THEN [appCall EXCEPT !.clean = FALSE]
                  ELSE appCall
    /\ IF beh.outcome = "normal"
       THEN /\ idx' = idx + 1
            /\ UNCHANGED <<pcSvc, threw>>
       ELSE /\ threw' = threw \cup {listeners[idx]}
            /\ IF catches(beh.outcome)
               THEN /\ idx' = idx + 1
                    /\ UNCHANGED pcSvc
               ELSE /\ pcSvc' = "thrown"
                    /\ UNCHANGED idx
    /\ UNCHANGED <<resVars, event, packageName, className, timestamp, listeners,
                   regAtSnapshot, clock>>

\* onAccessibilityEvent that posts the dispatch and returns while the
\* listeners are still being invoked
onAccessibilityEvent_return_posted ==
    /\ pcSvc \in {"loop", "dropped", "thrown"}
    /\ pcSvc' = "idle"
    /\ event' = NoEvent
    /\ packageName' = NULL
    /\ className' = NULL
    /\ listeners' = <<>>
    /\ idx' = 1
    /\ invoked' = <<>>
    /\ threw' = {}
    /\ regAtSnapshot' = {}
    /\ lateAdded' = {}
    /\ UNCHANGED <<resVars, eventListeners, appVars, lastSet, timestamp, clock>>

\* notifyListeners and onAccessibilityEvent return (or the exception that
\* left them reaches the event source).
onAccessibilityEvent_return ==
    /\ \/ pcSvc = "loop" /\ idx > Len(listeners)
       \/ pcSvc = "dropped"
       \/ pcSvc = "thrown"
    /\ pcSvc' = "idle"
    /\ event' = NoEvent
    /\ packageName' = NULL
    /\ className' = NULL
    /\ listeners' = <<>>
    /\ idx' = 1
    /\ invoked' = <<>>
    /\ threw' = {}
    /\ regAtSnapshot' = {}
    /\ lateAdded' = {}
    /\ UNCHANGED <<resVars, eventListeners, appVars, lastSet, timestamp, clock>>

\* What a lifecycle callback leaves alone besides the registry.
lifecycleFrame ==
    <<resolverVars, jsVars, mutex, threadVars, moduleVars, appVars, lastSet, svcVars,
      lateAdded, clock>>

\* override fun onServiceConnected(): the framework created an instance and
\* connected it.  Lifecycle callbacks run on the main thread, as
\* onAccessibilityEvent does, so never during a dispatch.
onServiceConnected ==
    /\ pcSvc = "idle"
    /\ service \in {"none", "destroyed"}
    /\ service' = "connected"
    /\ UNCHANGED <<lifecycleFrame, eventListeners>>

\* override fun onInterrupt()
onInterrupt ==
    /\ pcSvc = "idle"
    /\ service = "connected"
    /\ UNCHANGED vars

\* override fun onUnbind(intent): Boolean
onUnbind ==
    /\ pcSvc = "idle"
    /\ service = "connected"
    /\ service' = "unbound"
    /\ UNCHANGED <<lifecycleFrame, eventListeners>>

\* onDestroy dropping the listeners with the instance
onDestroy_clearing ==
    /\ pcSvc = "idle"
    /\ service \in {"connected", "unbound"}
    /\ service' = "destroyed"
    /\ eventListeners' = clear(eventListeners)
    /\ UNCHANGED lifecycleFrame

\* override fun onDestroy()
onDestroy ==
    /\ pcSvc = "idle"
    /\ service \in {"connected", "unbound"}
    /\ service' = "destroyed"
    /\ UNCHANGED <<lifecycleFrame, eventListeners>>

\* Time passes, and the timestamp handed to the listeners follows the clock.
Tick_dispatchTime ==
    /\ clock < MaxClock
    /\ clock' = clock + 1
    /\ timestamp' = IF pcSvc \in {"call", "loop"} THEN clock' ELSE timestamp
    /\ UNCHANGED <<resVars, eventListeners, appVars, lastSet, pcSvc, event, packageName,
                   className, listeners, idx, invoked, threw, regAtSnapshot, lateAdded>>

\* Time passes.
Tick ==
    /\ clock < MaxClock
    /\ clock' = clock + 1
    /\ UNCHANGED <<resVars, eventListeners, appVars, lastSet, svcVars, lateAdded>>

Next ==
    \/ \E l \in Listeners : addEventListener(l)
    \/ \E l \in Listeners : removeEventListener(l)
    \/ \E l \in Listeners \cup {NoListener} : setEventListener_clear(l)
    \/ setEventListener_add
    \/ appReturn
    \/ \E ev \in Events : onAccessibilityEvent(ev)
    \/ notifyListeners_snapshot
    \/ \E beh \in Behaviours : notifyListeners_invoke(beh)
    \/ onAccessibilityEvent_return
    \/ onServiceConnected
    \/ onInterrupt
    \/ onUnbind
    \/ onDestroy
    \/ Tick

Spec == Init /\ [][Next]_vars

\* ------------------------------------- the dispatch of events, one by one
\* The service receives events while the application and the callbacks add
\* and remove listeners.
DispatchNext ==
    \/ \E l \in Listeners : addEventListener(l)
    \/ \E l \in Listeners : removeEventListener(l)
    \/ appReturn
    \/ onServiceConnected
    \/ \E ev \in Events : onAccessibilityEvent(ev)
    \/ notifyListeners_snapshot
    \/ \E beh \in Behaviours : notifyListeners_invoke(beh)
    \/ onAccessibilityEvent_return
    \/ Tick

DispatchSpec == Init /\ [][DispatchNext]_vars

\* The same, where a callback that is being invoked returns, and the service
\* thread is not held up between two steps of onAccessibilityEvent.
DispatchFairSpec ==
    /\ DispatchSpec
    /\ WF_vars(notifyListeners_snapshot)
    /\ WF_vars(\E beh \in Behaviours : notifyListeners_invoke(beh))
    /\ WF_vars(onAccessibilityEvent_return)

\* ------------------------- the registry used through the legacy operations
\* fun getEventListener(): EventListener? = eventListeners.firstOrNull(),
\* called by the application context while nothing else changes the set
getEventListener ==
    /\ pcApp = "idle"
    /\ appCall' = [NoCall EXCEPT !.op = "get", !.listener = firstOrNull(eventListeners)]
    /\ pcApp' = "ret"
    /\ UNCHANGED <<resVars, eventListeners, lastSet, svcVars, lateAdded, clock>>

\* Callbacks that do not call the registry.
LegacyBehaviours == {beh \in Behaviours : beh.act = "none"}

LegacyNext ==
    \/ \E l \in Listeners \cup {NoListener} : setEventListener_clear(l)
    \/ setEventListener_add
    \/ getEventListener
    \/ appReturn
    \/ onServiceConnected
    \/ \E ev \in Events : onAccessibilityEvent(ev)
    \/ notifyListeners_snapshot
    \/ \E beh \in LegacyBehaviours : notifyListeners_invoke(beh)
    \/ onAccessibilityEvent_return

LegacySpec == Init /\ [][LegacyNext]_vars

\* ------------------------------- the module as a listener of the registry
\* this@ExpoAccessibilityServiceModule, the listener the module registers.
ModuleListener == CHOOSE l \in Listeners : \A k \in Listeners : l <= k

\* What OnCreate and OnDestroy leave alone.
moduleFrame ==
    <<resolverVars, jsVars, mutex, threadVars, service, sent, pcApp, svcVars, clock>>

\* The history of a setEventListener in progress, when the module changes
\* the registry between its clear and its add.
Disturbed(before, after) ==
    IF pcApp = "setAdd" /\ after # before THEN [appCall EXCEPT !.clean = FALSE] ELSE appCall

\* OnCreate { MyAccessibilityService.addEventListener(this) }
OnCreate ==
    /\ module = "none"
    /\ mutex = "none"
    /\ eventListeners' = add(eventListeners, ModuleListener)
    /\ module' = "created"
    /\ lateAdded' = NoteAdded(eventListeners, eventListeners')
    /\ lastSet' = KeepSet(eventListeners, eventListeners')
    /\ appCall' = Disturbed(eventListeners, eventListeners')
    /\ UNCHANGED moduleFrame

\* OnDestroy that leaves the module registered
OnDestroy_leaking ==
    /\ module = "created"
    /\ mutex = "none"
    /\ module' = "destroyed"
    /\ UNCHANGED <<moduleFrame, eventListeners, lateAdded, lastSet, appCall>>

\* OnDestroy { MyAccessibilityService.removeEventListener(this) }
OnDestroy ==
    /\ module = "created"
    /\ mutex = "none"
    /\ eventListeners' = remove(eventListeners, ModuleListener)
    /\ module' = "destroyed"
    /\ lastSet' = KeepSet(eventListeners, eventListeners')
    /\ appCall' = Disturbed(eventListeners, eventListeners')
    /\ UNCHANGED <<moduleFrame, lateAdded>>

\* What sendEvent may do: hand the event to JavaScript, or throw.
SendOutcomes == {"emitted", "Exception"}

\* override fun onAppChanged of the module: how the callback ends.  What
\* sendEvent throws is caught and logged there.
onAppChanged(sendOutcome) == "normal"

\* notifyListeners: the iteration of forEach that invokes the module, whose
\* onAppChanged calls sendEvent("onAccessibilityEvent", eventData)
notifyListeners_invoke_onAppChanged(sendOutcome) ==
    /\ pcSvc = "loop"
    /\ idx <= Len(listeners)
    /\ listeners[idx] = ModuleListener
    /\ invoked' = Append(invoked, [listener |-> listeners[idx],
                                   packageName |-> packageName,
                                   className |-> className,
                                   timestamp |-> timestamp])
    /\ sent' = [name |-> "onAccessibilityEvent",
                packageName |-> packageName,
                className |-> className,
                timestamp |-> timestamp,
                outcome |-> sendOutcome]
    /\ IF onAppChanged(sendOutcome) = "normal"
       THEN /\ idx' = idx + 1
            /\ UNCHANGED <<pcSvc, threw>>
       ELSE /\ threw' = threw \cup {listeners[idx]}
            /\ IF catches(onAppChanged(sendOutcome))
               THEN /\ idx' = idx + 1
                    /\ UNCHANGED pcSvc
               ELSE /\ pcSvc' = "thrown"
                    /\ UNCHANGED idx
    /\ UNCHANGED <<resolverVars, jsVars, mutex, threadVars, service, module,
                   eventListeners, appVars, lastSet, event, packageName, className,
                   timestamp, listeners, regAtSnapshot, lateAdded, clock>>

\* The listeners other than the module.
OtherListeners == Listeners \ {ModuleListener}

ModuleNext ==
    \/ OnCreate
    \/ OnDestroy
    \/ \E l \in OtherListeners : addEventListener(l)
    \/ \E l \in OtherListeners : removeEventListener(l)
    \/ \E l \in OtherListeners \cup {NoListener} : setEventListener_clear(l)
    \/ setEventListener_add
    \/ appReturn
    \/ onServiceConnected
    \/ \E ev \in Events : onAccessibilityEvent(ev)
    \/ notifyListeners_snapshot
    \/ /\ pcSvc = "loop"
       /\ idx <= Len(listeners)
       /\ listeners[idx] # ModuleListener
       /\ \E beh \in LegacyBehaviours : notifyListeners_invoke(beh)
    \/ \E sendOutcome \in SendOutcomes : notifyListeners_invoke_onAppChanged(sendOutcome)
    \/ onAccessibilityEvent_return
    \/ Tick

ModuleSpec == Init /\ [][ModuleNext]_vars

\* ------------------------------------- two contexts calling the registry
\* What a registry call of context t leaves alone.
threadFrame ==
    <<resolverVars, jsVars, mutex, service, moduleVars, appVars, lastSet, svcVars,
      lateAdded, clock>>

\* The step of context t bumps modCount of the LinkedHashSet: it inserts or
\* removes an element, or it is clear(), which counts even on an empty set.
Modifies(t, op) ==
    \/ eventListeners' # eventListeners
    \/ op = "set" /\ pcThread[t] = "idle"

\* The call record of context t running op on l, and the other context's
\* record, whose call is no longer the latest; an iterator the other
\* context holds notes the modification.
Called(t, op, l, ret, snapshot) ==
    [u \in Threads |->
        IF u = t
        THEN [op |-> op, arg |-> l, ret |-> ret,
              present |-> contains(eventListeners, l),
              last |-> TRUE,
              follows |-> pcThread[Other(t)] = "ret" /\ threadCall[Other(t)].last,
              snapshot |-> snapshot,
              listener |-> NoListener, modified |-> FALSE, thrown |-> FALSE]
        ELSE [threadCall[u] EXCEPT
                 !.last = FALSE,
                 !.modified = pcThread[u] = "getNext" /\ (@ \/ Modifies(t, op))]]

\* addEventListener on a set that is not synchronized: of two calls racing
\* for the same listener both find it absent.
concurrent_addEventListener_unsynchronized(t, l) ==
    /\ pcThread[t] = "idle"
    /\ mutex = "none"
    /\ eventListeners' = add(eventListeners, l)
    /\ LET raced == /\ pcThread[Other(t)] = "ret"
                    /\ threadCall[Other(t)] =
                           [NoThreadCall EXCEPT !.op = "add", !.arg = l, !.ret = TRUE,
                                                !.last = TRUE,
                                                !.follows = threadCall[Other(t)].follows]
       IN threadCall' = Called(t, "add", l,
                               raced \/ eventListeners' # eventListeners, <<>>)
    /\ pcThread' = [pcThread EXCEPT ![t] = "ret"]
    /\ UNCHANGED threadFrame

\* fun addEventListener(listener): Boolean, called by context t
concurrent_addEventListener(t, l) ==
    /\ pcThread[t] = "idle"
    /\ mutex = "none"
    /\ eventListeners' = add(eventListeners, l)
    /\ threadCall' = Called(t, "add", l, eventListeners' # eventListeners, <<>>)
    /\ pcThread' = [pcThread EXCEPT ![t] = "ret"]
    /\ UNCHANGED threadFrame

\* fun removeEventListener(listener): Boolean, called by context t
concurrent_removeEventListener(t, l) ==
    /\ pcThread[t] = "idle"
    /\ mutex = "none"
    /\ eventListeners' = remove(eventListeners, l)
    /\ threadCall' = Called(t, "remove", l, eventListeners' # eventListeners, <<>>)
    /\ pcThread' = [pcThread EXCEPT ![t] = "ret"]
    /\ UNCHANGED threadFrame

\* fun setEventListener(listener?), called by context t: eventListeners.clear()
concurrent_setEventListener_clear(t, l) ==
    /\ pcThread[t] = "idle"
    /\ mutex = "none"
    /\ eventListeners' = clear(eventListeners)
    /\ threadCall' = Called(t, "set", l, FALSE, <<>>)
    /\ pcThread' = [pcThread EXCEPT ![t] = "setAdd"]
    /\ UNCHANGED threadFrame

\* fun setEventListener(listener?), called by context t: listener?.let { add(it) }
concurrent_setEventListener_add(t) ==
    /\ pcThread[t] = "setAdd"
    /\ mutex = "none"
    /\ eventListeners' = IF threadCall[t].arg = NoListener
                         THEN eventListeners
                         ELSE add(eventListeners, threadCall[t].arg)
    /\ threadCall' = Called(t, "set", threadCall[t].arg, FALSE, <<>>)
    /\ pcThread' = [pcThread EXCEPT ![t] = "ret"]
    /\ UNCHANGED threadFrame

\* notifyListeners called by context t: the snapshot it iterates over
concurrent_notifyListeners(t) ==
    /\ pcThread[t] = "idle"
    /\ mutex = "none"
    /\ UNCHANGED eventListeners
    /\ threadCall' = Called(t, "notify", NoListener, FALSE, toList(eventListeners))
    /\ pcThread' = [pcThread EXCEPT ![t] = "ret"]
    /\ UNCHANGED threadFrame

\* fun getEventListener() = eventListeners.firstOrNull(), called by context
\* t: firstOrNull takes the set's iterator, which the synchronized wrapper
\* does not guard, and returns null when it has no element.
concurrent_getEventListener_iterator(t) ==
    /\ pcThread[t] = "idle"
    /\ threadCall' = [threadCall EXCEPT ![t] =
                          [NoThreadCall EXCEPT !.op = "get",
                                               !.snapshot = eventListeners,
                                               !.listener = firstOrNull(eventListeners)]]
    /\ pcThread' = [pcThread EXCEPT ![t] = IF Len(eventListeners) = 0
                                           THEN "ret" ELSE "getNext"]
    /\ UNCHANGED <<threadFrame, eventListeners>>

\* getEventListener: iterator.next().  When the set was modified since the
\* iterator was made, next() throws ConcurrentModificationException, unless
\* its unsynchronized read of modCount gives the old count.
concurrent_getEventListener_next(t) ==
    /\ pcThread[t] = "getNext"
    /\ \E thrown \in IF threadCall[t].modified THEN BOOLEAN ELSE {FALSE} :
           threadCall' = [threadCall EXCEPT ![t].thrown = thrown,
                                            ![t].listener = IF thrown THEN NoListener ELSE @]
    /\ pcThread' = [pcThread EXCEPT ![t] = "ret"]
    /\ UNCHANGED <<threadFrame, eventListeners>>

\* The call of context t returns to its caller.
concurrent_return(t) ==
    /\ pcThread[t] = "ret"
    /\ pcThread' = [pcThread EXCEPT ![t] = "idle"]
    /\ threadCall' = [threadCall EXCEPT ![t] = NoThreadCall]
    /\ UNCHANGED <<threadFrame, eventListeners>>

ConcurrentNext ==
    \/ \E t \in Threads, l \in Listeners : concurrent_addEventListener(t, l)
    \/ \E t \in Threads, l \in Listeners : concurrent_removeEventListener(t, l)
    \/ \E t \in Threads, l \in Listeners \cup {NoListener} :
           concurrent_setEventListener_clear(t, l)
    \/ \E t \in Threads : concurrent_setEventListener_add(t)
    \/ \E t \in Threads : concurrent_notifyListeners(t)
    \/ \E t \in Threads : concurrent_getEventListener_iterator(t)
    \/ \E t \in Threads : concurrent_getEventListener_next(t)
    \/ \E t \in Threads : concurrent_return(t)

ConcurrentSpec == Init /\ [][ConcurrentNext]_vars

\* ------------------------------------------------------ module functions
\* setServiceClassName keeping a name that is already configured.
setServiceClassName_onlyFirst(name) ==
    /\ pcRes = "idle"
    /\ serviceClassName' = IF serviceClassName = NULL THEN name ELSE serviceClassName
    /\ resolverCall' = [NoResolverCall EXCEPT
                           !.op = "setServiceClassName",
                           !.arg = name,
                           !.outcome = "resolved"]
    /\ pcRes' = "ret"
    /\ UNCHANGED <<regVars, context>>

\* AsyncFunction("setServiceClassName")
setServiceClassName(name) ==
    /\ pcRes = "idle"
    /\ serviceClassName' = name
    /\ resolverCall' = [NoResolverCall EXCEPT
                           !.op = "setServiceClassName",
                           !.arg = name,
                           !.outcome = "resolved"]
    /\ pcRes' = "ret"
    /\ UNCHANGED <<regVars, context>>

\* isEnabledThrows as if the settings query were inside a try block.
isEnabledThrows_queryGuarded(ctx, configured, reactContext, enabledServices) ==
    \/ ~reactContext
    \/ /\ configured = NULL
       /\ scanOutcome(ctx, reactContext) # "normal"
       /\ ~scanCatches(scanOutcome(ctx, reactContext))

\* Does the call leave isAccessibilityServiceEnabled() by an exception?
\* context (requireNotNull) is read outside any try block, the manifest scan
\* runs only when nothing is configured, Settings.Secure.getString is not
\* guarded.
isEnabledThrows(ctx, configured, reactContext, enabledServices) ==
    \/ ~reactContext
    \/ /\ configured = NULL
       /\ scanOutcome(ctx, reactContext) # "normal"
       /\ ~scanCatches(scanOutcome(ctx, reactContext))
    \/ enabledServices = QueryThrows

\* isEnabled as if it remembered the fallback class name it resolved to
isEnabled_caching(reactContext, enabledServices) ==
    /\ pcRes = "idle"
    /\ resolverCall' =
           IF isEnabledThrows(context, serviceClassName, reactContext, enabledServices)
           THEN [NoResolverCall EXCEPT
                    !.op = "isEnabled",
                    !.reactContext = reactContext,
                    !.enabledServices = enabledServices,
                    !.outcome = "rejected"]
           ELSE [NoResolverCall EXCEPT
                    !.op = "isEnabled",
                    !.enabledServices = enabledServices,
                    !.serviceNames = getServiceNamesToCheck(context, serviceClassName),
                    !.ret = isAccessibilityServiceEnabled(context, serviceClassName,
                                                          enabledServices),
                    !.original = originalIsAccessibilityServiceEnabled(context,
                                                                       enabledServices),
                    !.outcome = "resolved"]
    /\ serviceClassName' =
           IF /\ ~isEnabledThrows(context, serviceClassName, reactContext, enabledServices)
              /\ serviceClassName = NULL
              /\ getAccessibilityServicesFromManifest(context) = <<>>
           THEN DefaultClassName(context.packageName)
           ELSE serviceClassName
    /\ pcRes' = "ret"
    /\ UNCHANGED <<regVars, context>>

\* AsyncFunction("isEnabled"); the original module is run on the same inputs
\* for comparison.
isEnabled(reactContext, enabledServices) ==
    /\ pcRes = "idle"
    /\ resolverCall' =
           IF isEnabledThrows(context, serviceClassName, reactContext, enabledServices)
           THEN [NoResolverCall EXCEPT
                    !.op = "isEnabled",
                    !.reactContext = reactContext,
                    !.enabledServices = enabledServices,
                    !.outcome = "rejected"]
           ELSE [NoResolverCall EXCEPT
                    !.op = "isEnabled",
                    !.enabledServices = enabledServices,
                    !.serviceNames = getServiceNamesToCheck(context, serviceClassName),
                    !.ret = isAccessibilityServiceEnabled(context, serviceClassName,
                                                          enabledServices),
                    !.original = originalIsAccessibilityServiceEnabled(context,
                                                                       enabledServices),
                    !.outcome = "resolved"]
    /\ pcRes' = "ret"
    /\ UNCHANGED <<regVars, context, serviceClassName>>

\* AsyncFunction("getDetectedServices")
getDetectedServices(reactContext) ==
    /\ pcRes = "idle"
    /\ resolverCall' =
           IF /\ scanOutcome(context, reactContext) # "normal"
              /\ ~scanCatches(scanOutcome(context, reactContext))
           THEN [NoResolverCall EXCEPT
                    !.op = "getDetectedServices",
                    !.reactContext = reactContext,
                    !.outcome = "rejected"]
           ELSE [NoResolverCall EXCEPT
                    !.op = "getDetectedServices",
                    !.reactContext = reactContext,
                    !.detected = IF reactContext
                                 THEN getAccessibilityServicesFromManifest(context)
                                 ELSE <<>>,
                    !.outcome = "resolved"]
    /\ pcRes' = "ret"
    /\ UNCHANGED <<regVars, context, serviceClassName>>

\* The exception that ends the try block of openAccessibilitySettings, if
\* any: the Intent is built first, then context is read (requireNotNull),
\* then startActivity is called.
thrown(reactContext, start) ==
    IF start.step = "Intent" THEN start
    ELSE IF ~reactContext
         THEN [step |-> "context", message |-> "Required value was null."]
         ELSE start

\* openAccessibilitySettings resolving before it starts the activity.
openAccessibilitySettings_resolveFirst(reactContext, start) ==
    LET e == thrown(reactContext, start)
    IN IF e.step = "none"
       THEN [starts |-> 1, settled |-> <<"resolve">>, message |-> ""]
       ELSE [starts |-> IF e.step = "startActivity" THEN 1 ELSE 0,
             settled |-> <<"resolve", "reject">>,
             message |-> "Could not open accessibility settings: " \o e.message]

\* private fun openAccessibilitySettings(promise): the calls of
\* startActivity it makes, the settlements of the promise, the message of
\* the rejection.
openAccessibilitySettings(reactContext, start) ==
    LET e == thrown(reactContext, start)
    IN IF e.step = "none"
       THEN [starts |-> 1, settled |-> <<"resolve">>, message |-> ""]
       ELSE [starts |-> IF e.step = "startActivity" THEN 1 ELSE 0,
             settled |-> <<"reject">>,
             message |-> "Could not open accessibility settings: " \o e.message]

\* AsyncFunction("askPermission"); the first settlement of a promise is the
\* one that counts.
askPermission(reactContext, start) ==
    /\ pcRes = "idle"
    /\ LET r == openAccessibilitySettings(reactContext, start)
       IN resolverCall' =
              [NoResolverCall EXCEPT
                  !.op = "askPermission",
                  !.reactContext = reactContext,
                  !.start = start,
                  !.starts = r.starts,
                  !.settled = r.settled,
                  !.message = r.message,
                  !.outcome = IF r.settled[1] = "resolve" THEN "resolved"
                              ELSE "rejected"]
    /\ pcRes' = "ret"
    /\ UNCHANGED <<regVars, context, serviceClassName>>

\* class ExpoAccessibilityServiceModule : Module(): the host builds a new
\* module instance (a reload of the application), whose field starts null.
ExpoAccessibilityServiceModule ==
    /\ pcRes = "idle"
    /\ serviceClassName' = NULL
    /\ UNCHANGED <<regVars, context, pcRes, resolverCall>>

\* The promise is delivered to the caller.
resolverReturn ==
    /\ pcRes = "ret"
    /\ pcRes' = "idle"
    /\ resolverCall' = NoResolverCall
    /\ UNCHANGED <<regVars, context, serviceClassName>>

ResolverNext ==
    \/ \E name \in ConfigNames : setServiceClassName(name)
    \/ /\ pcRes = "idle"
       /\ \E enabledServices \in EnabledStrings(context.packageName) \cup {QueryThrows} :
              isEnabled(TRUE, enabledServices)
    \/ isEnabled(FALSE, NULL)
    \/ \E reactContext \in BOOLEAN : getDetectedServices(reactContext)
    \/ \E reactContext \in BOOLEAN, start \in StartOutcomes :
           askPermission(reactContext, start)
    \/ resolverReturn
    \/ ExpoAccessibilityServiceModule

ResolverSpec == ResolverInit /\ [][ResolverNext]_vars

\* ------------------------------------ module calls one after another
\* The call returns to JavaScript; its record is kept until the next call
\* (history), so that two calls in a row can be compared.
resolverReturn_keeping ==
    /\ pcRes = "ret"
    /\ pcRes' = "idle"
    /\ UNCHANGED <<regVars, context, serviceClassName, resolverCall>>

\* The values of the setting the repeated calls are run on: unset, empty,
\* or one entry.
OneEntryStrings(pkg) == {NULL, <<>>} \cup Tokens(pkg)

RepeatNext ==
    \/ \E name \in ConfigNames : setServiceClassName(name)
    \/ /\ pcRes = "idle"
       /\ \E enabledServices \in OneEntryStrings(context.packageName) \cup {QueryThrows} :
              isEnabled(TRUE, enabledServices)
    \/ isEnabled(FALSE, NULL)
    \/ \E reactContext \in BOOLEAN : getDetectedServices(reactContext)
    \/ resolverReturn_keeping

RepeatSpec == ResolverInit /\ [][RepeatNext]_vars

\* ------------------- a resolution racing with setServiceClassName
\* "$serviceClassName": a null reference is rendered as "null".
template(v) == IF v = NULL THEN <<"n", "u", "l", "l">> ELSE v

\* getServiceNamesToCheck, first read of the field: serviceClassName != null
getServiceNamesToCheck_test ==
    /\ pcRes = "idle"
    /\ resolverCall' = [NoResolverCall EXCEPT
                           !.op = "getServiceNamesToCheck",
                           !.arg = serviceClassName]
    /\ pcRes' = "resolving"
    /\ UNCHANGED <<regVars, context, serviceClassName>>

\* setServiceClassName storing null for an empty name
concurrent_setServiceClassName_unset(name) ==
    /\ pcRes = "resolving"
    /\ serviceClassName' = IF name = <<>> THEN NULL ELSE name
    /\ UNCHANGED <<regVars, context, pcRes, resolverCall>>

\* AsyncFunction("setServiceClassName") of another caller, while the
\* resolution is between its two reads of the field
concurrent_setServiceClassName(name) ==
    /\ pcRes = "resolving"
    /\ serviceClassName' = name
    /\ UNCHANGED <<regVars, context, pcRes, resolverCall>>

\* getServiceNamesToCheck, the rest: under rule 1 the field is read again
\* for the string template; the field is not volatile, so this read gives
\* the value the test saw or the value written since.
getServiceNamesToCheck_build ==
    /\ pcRes = "resolving"
    /\ \E read \in {resolverCall.arg, serviceClassName} :
           resolverCall' =
               [resolverCall EXCEPT
                   !.serviceNames =
                       IF resolverCall.arg # NULL
                       THEN <<Slash(context.packageName, template(read))>>
                       ELSE getServiceNamesToCheck(context, NULL),
                   !.detected = getAccessibilityServicesFromManifest(context),
                   !.outcome = "resolved"]
    /\ pcRes' = "ret"
    /\ UNCHANGED <<regVars, context, serviceClassName>>

RaceNext ==
    \/ \E name \in ConfigNames : setServiceClassName(name)
    \/ getServiceNamesToCheck_test
    \/ \E name \in ConfigNames : concurrent_setServiceClassName(name)
    \/ getServiceNamesToCheck_build
    \/ resolverReturn

RaceSpec == ResolverInit /\ [][RaceNext]_vars

\* ------------------------------------------------------------- index.ts
MaxSubscriptions == 3

\* ExpoAccessibilityServiceModule.addListener(eventName, listener): a new
\* registration; its subscription is known by the registration's id.
addListener(registrations, id, eventName, listener) ==
    Append(registrations, [id |-> id, eventName |-> eventName, listener |-> listener])

\* subscription.remove() of the native module's subscription id
removeSubscription(registrations, id) ==
    SelectSeq(registrations, LAMBDA r : r.id # id)

\* addAccessibilityEventListener keeping its subscription in one variable
\* shared by all the objects it returns.
addAccessibilityEventListener_shared(listener) ==
    /\ Len(subscriptions) < MaxSubscriptions
    /\ LET subscription == Len(subscriptions) + 1
       IN /\ emitter' = addListener(emitter, subscription, "onAccessibilityEvent", listener)
          /\ subscriptions' = [i \in 1..(Len(subscriptions) + 1) |->
                                  [subscription |-> subscription]]
          /\ jsCall' = [NoJsCall EXCEPT
                           !.op = "addAccessibilityEventListener",
                           !.sub = Len(subscriptions) + 1,
                           !.listener = listener,
                           !.eventName = "onAccessibilityEvent"]
    /\ UNCHANGED <<registryVars, resolverVars>>

\* export function addAccessibilityEventListener(listener): the object it
\* returns closes over the subscription addListener gave.
addAccessibilityEventListener(listener) ==
    /\ Len(subscriptions) < MaxSubscriptions
    /\ LET subscription == Len(subscriptions) + 1
       IN /\ emitter' = addListener(emitter, subscription, "onAccessibilityEvent", listener)
          /\ subscriptions' = Append(subscriptions, [subscription |-> subscription])
          /\ jsCall' = [NoJsCall EXCEPT
                           !.op = "addAccessibilityEventListener",
                           !.sub = Len(subscriptions) + 1,
                           !.listener = listener,
                           !.eventName = "onAccessibilityEvent"]
    /\ UNCHANGED <<registryVars, resolverVars>>

\* remove: () => subscription.remove(), called on the k-th returned object
subscriptionRemove(k) ==
    /\ k \in 1..Len(subscriptions)
    /\ emitter' = removeSubscription(emitter, subscriptions[k].subscription)
    /\ jsCall' = [NoJsCall EXCEPT
                     !.op = "remove",
                     !.sub = k,
                     !.removed = <<subscriptions[k].subscription>>]
    /\ UNCHANGED <<registryVars, resolverVars, subscriptions>>

\* How a method of the native module object may settle its promise, as its
\* JavaScript callers see it.
NativeOutcomes(method) ==
    {[kind |-> "rejected", value |-> "Native module error"]} \cup
    [kind : {"resolved"},
     value : CASE method = "isEnabled" -> {"true", "false"}
               [] method = "getDetectedServices" -> {"[]", "[X]"}
               [] OTHER -> {"undefined"}]

\* The native calls a wrapper of index.ts makes: the method of its own name,
\* once, with the arguments it was given.
wrapperCalls(method, args) == <<[method |-> method, args |-> args]>>

\* A wrapper that turns a rejection into a default value.
wrapperResult_swallow(native) ==
    IF native.kind = "rejected"
    THEN [kind |-> "resolved", value |-> "false"]
    ELSE native

\* `return ExpoAccessibilityServiceModule.method(...)`: the promise of the
\* native call is what the wrapper returns.
wrapperResult(native) == native

\* A wrapper of index.ts is called with args; its native call settles as
\* native says.
wrapper(method, args, native) ==
    /\ jsCall' = [NoJsCall EXCEPT
                     !.op = method,
                     !.args = args,
                     !.nativeCalls = wrapperCalls(method, args),
                     !.native = native,
                     !.result = wrapperResult(native)]
    /\ UNCHANGED <<registryVars, resolverVars, emitter, subscriptions>>

\* export function isEnabled(): Promise<boolean>
js_isEnabled(native) == wrapper("isEnabled", <<>>, native)

\* export function askPermission(): Promise<void>
js_askPermission(native) == wrapper("askPermission", <<>>, native)

\* export function setServiceClassName(className): Promise<void>
js_setServiceClassName(name, native) ==
    wrapper("setServiceClassName", <<name>>, native)

\* export function getDetectedServices(): Promise<string[]>
js_getDetectedServices(native) == wrapper("getDetectedServices", <<>>, native)

JsInit ==
    /\ RegistryInit
    /\ context = DefaultContext
    /\ ResolverStart
    /\ JsStart

JsNext ==
    \/ \E l \in Listeners : addAccessibilityEventListener(l)
    \/ \E k \in 1..MaxSubscriptions : subscriptionRemove(k)
    \/ \E native \in NativeOutcomes("isEnabled") : js_isEnabled(native)
    \/ \E native \in NativeOutcomes("askPermission") : js_askPermission(native)
    \/ \E name \in ConfigNames, native \in NativeOutcomes("setServiceClassName") :
           js_setServiceClassName(name, native)
    \/ \E native \in NativeOutcomes("getDetectedServices") : js_getDetectedServices(native)

JsSpec == JsInit /\ [][JsNext]_vars

\* ================================================================ claims
\* The dispatch has run its forEach to the end.
LoopDone == pcSvc = "loop" /\ idx > Len(listeners)

InvokedListeners == {invoked[i].listener : i \in 1..Len(invoked)}

\* The execution of an application call of the given kind (the step that
\* performs it).
AppStep(op) == pcApp = "idle" /\ pcApp' = "ret" /\ appCall'.op = op

\* Reference membership test: split on ':', trim each token, compare exactly.
Whitespace == {" ", "\t", "\n"}

RECURSIVE TrimLeft(_)
TrimLeft(s) ==
    IF Len(s) > 0 /\ s[1] \in Whitespace THEN TrimLeft(Tail(s)) ELSE s

RECURSIVE TrimRight(_)
TrimRight(s) ==
    IF Len(s) > 0 /\ s[Len(s)] \in Whitespace
    THEN TrimRight(SubSeq(s, 1, Len(s) - 1))
    ELSE s

Trim(s) == TrimRight(TrimLeft(s))

RECURSIVE SplitColon(_)
SplitColon(s) ==
    IF \E i \in 1..Len(s) : s[i] = ":"
    THEN LET k == CHOOSE i \in 1..Len(s) :
                      s[i] = ":" /\ \A j \in 1..(i - 1) : s[j] # ":"
         IN <<SubSeq(s, 1, k - 1)>> \o SplitColon(SubSeq(s, k + 1, Len(s)))
    ELSE <<s>>

TrimmedTokens(s) == {Trim(t) : t \in Range(SplitColon(s))}

IsEnabledDone ==
    pcRes = "ret" /\ resolverCall.op = "isEnabled" /\ resolverCall.outcome = "resolved"

\* C1: with a configured (non-empty) class name c the resolver returns
\* exactly [pkg/c] whatever the manifest scan gives, and isEnabled is false
\* when the only enabled service is an auto-detected one different from pkg/c.
C1_ConfiguredWins ==
    (IsEnabledDone /\ serviceClassName # NULL /\ serviceClassName # <<>>) =>
        /\ resolverCall.serviceNames = <<Slash(context.packageName, serviceClassName)>>
        /\ \A d \in Range(getAccessibilityServicesFromManifest(context)) :
               ( /\ d # serviceClassName
                 /\ resolverCall.enabledServices = Slash(context.packageName, d) )
               => resolverCall.ret = FALSE

\* C1, the part the code satisfies: the candidate list is exactly [pkg/c].
C1_ConfiguredList ==
    (IsEnabledDone /\ serviceClassName # NULL) =>
        resolverCall.serviceNames = <<Slash(context.packageName, serviceClassName)>>

\* C2: for a non-empty enabled-services string isEnabled is true iff some
\* candidate equals one of the colon-separated, trimmed tokens; a candidate
\* that is only a proper substring of a token does not count.
C2_ExactMembership ==
    (IsEnabledDone /\ ~isEmpty(resolverCall.enabledServices)) =>
        resolverCall.ret =
            (\E i \in 1..Len(resolverCall.serviceNames) :
                 resolverCall.serviceNames[i] \in
                     TrimmedTokens(resolverCall.enabledServices))

C4_EachOnce ==
    LoopDone =>
        /\ \A l \in regAtSnapshot :
               Cardinality({i \in 1..Len(invoked) : invoked[i].listener = l}) = 1
        /\ InvokedListeners \subseteq regAtSnapshot
        /\ \A i \in 1..Len(invoked) :
               /\ invoked[i].packageName = event.packageName
               /\ invoked[i].className = event.className
               /\ invoked[i].timestamp = timestamp

C4_Witness ==
    /\ LoopDone
    /\ Cardinality(regAtSnapshot) >= 2
    /\ Len(invoked) >= 2

\* C5: addEventListener(L) returns true and inserts L when L is absent; when
\* L is present it returns false and leaves the registry as it was.
C5_AddOnce ==
    [][\A l \in Listeners :
          (AppStep("add") /\ appCall'.arg = l) =>
              IF l \in Range(eventListeners)
              THEN /\ appCall'.ret = FALSE
                   /\ eventListeners' = eventListeners
              ELSE /\ appCall'.ret = TRUE
                   /\ Range(eventListeners') = Range(eventListeners) \cup {l}
                   /\ Len(eventListeners') = Len(eventListeners) + 1]_vars

C5_Witness ==
    /\ pcApp = "ret"
    /\ appCall.op = "add"
    /\ appCall.ret = FALSE
    /\ appCall.arg \in Range(eventListeners)

\* C6: removeEventListener(L) returns true and removes L when L is present,
\* returns false and changes nothing when L is absent; a removed listener is
\* unregistered, so adding it again succeeds.
C6_RemoveResult ==
    [][\A l \in Listeners :
          /\ (AppStep("remove") /\ appCall'.arg = l) =>
                 /\ l \notin Range(eventListeners')
                 /\ IF l \in Range(eventListeners)
                    THEN /\ appCall'.ret = TRUE
                         /\ Range(eventListeners') = Range(eventListeners) \ {l}
                         /\ Len(eventListeners') = Len(eventListeners) - 1
                    ELSE /\ appCall'.ret = FALSE
                         /\ eventListeners' = eventListeners
          /\ (AppStep("add") /\ appCall'.arg = l /\ l \notin Range(eventListeners)) =>
                 appCall'.ret = TRUE]_vars

C6_Witness ==
    /\ pcApp = "ret"
    /\ appCall.op = "remove"
    /\ appCall.ret = TRUE
    /\ appCall.arg \notin Range(eventListeners)

\* C7: a setEventListener(L) that ran undisturbed leaves exactly {L} (nothing
\* for null); while the registry stays as it left it, removeEventListener
\* returns true for L and false for every other listener.
C7_SetReplacesAll ==
    [][/\ lastSet' # NotSet =>
              eventListeners' = IF lastSet' = NoListener THEN <<>> ELSE <<lastSet'>>
       /\ (AppStep("remove") /\ lastSet # NotSet) =>
              appCall'.ret = (appCall'.arg = lastSet)]_vars

C7_Witness ==
    /\ pcApp = "ret"
    /\ appCall.op = "set"
    /\ Len(appCall.pre) >= 2
    /\ lastSet \in Listeners
    /\ eventListeners = <<lastSet>>

\* C8: a snapshot taken while setEventListener(L) is replacing the registry is
\* the whole set from before the replacement or the whole set after it.
C8_SnapshotNeverPartial ==
    [][(pcSvc = "call" /\ pcSvc' = "loop" /\ pcApp = "setAdd") =>
           \/ listeners' = appCall.pre
           \/ listeners' = IF appCall.arg = NoListener THEN <<>> ELSE <<appCall.arg>>]_vars

\* C9: a listener that got registered after the dispatch took its snapshot is
\* not invoked by that dispatch; the dispatch invokes only listeners that
\* were registered when it started.
C9_LateAddNotInvoked ==
    Dispatching =>
        /\ InvokedListeners \cap lateAdded = {}
        /\ InvokedListeners \subseteq regAtSnapshot

C9_Witness ==
    /\ LoopDone
    /\ Len(invoked) >= 1
    /\ lateAdded # {}
    /\ lateAdded \subseteq Range(eventListeners)

\* C10: an event reaches the listeners iff it is non-null, of type
\* TYPE_WINDOW_STATE_CHANGED and has a non-null, non-empty package name and
\* class name; otherwise no listener is invoked.
C10_ForwardedIffValid ==
    LET valid == /\ event.eventType = TYPE_WINDOW_STATE_CHANGED
                 /\ event.packageName # NULL /\ event.packageName # <<>>
                 /\ event.className # NULL /\ event.className # <<>>
    IN /\ pcSvc \in {"call", "loop", "thrown"} => valid
       /\ pcSvc = "dropped" => (~valid /\ invoked = <<>>)
       /\ \A i \in 1..Len(invoked) :
              /\ invoked[i].packageName \notin {NULL, <<>>}
              /\ invoked[i].className \notin {NULL, <<>>}

C10_Witness ==
    /\ pcSvc = "dropped"
    /\ event.eventType = TYPE_WINDOW_STATE_CHANGED
    /\ event.packageName = <<"a">>
    /\ event.className = <<>>
    /\ eventListeners # <<>>

\* An isEnabled call that had its React context and whose settings query
\* returned.
IsEnabledAnswered ==
    /\ pcRes = "ret"
    /\ resolverCall.op = "isEnabled"
    /\ resolverCall.reactContext
    /\ resolverCall.enabledServices # QueryThrows

\* C11: with no configured class name and a manifest scan that yields no
\* accessibility service, the candidates are exactly the one fallback
\* identifier pkg/pkg.MyAccessibilityService, for every package name.
C11_FallbackIdentifier ==
    ( /\ IsEnabledDone
      /\ serviceClassName = NULL
      /\ getAccessibilityServicesFromManifest(context) = <<>> ) =>
        resolverCall.serviceNames =
            <<context.packageName \o <<"/">> \o context.packageName
                  \o <<".">> \o MyAccessibilityService>>

C11_Witness ==
    /\ IsEnabledDone
    /\ serviceClassName = NULL
    /\ context.scan = "ok"
    /\ Len(context.services) = 1
    /\ context.packageName = <<"p", "q">>
    /\ getAccessibilityServicesFromManifest(context) = <<>>
    /\ Len(resolverCall.serviceNames) = 1

\* C12: with no configured class name and a non-empty manifest scan, the
\* candidates are pkg/name for each detected name, same order and length,
\* without the fallback; isEnabled is true when any one of them is enabled.
C12_DetectedCandidates ==
    LET detected == getAccessibilityServicesFromManifest(context)
    IN ( /\ IsEnabledDone
         /\ serviceClassName = NULL
         /\ Len(detected) > 0 ) =>
           /\ Len(resolverCall.serviceNames) = Len(detected)
           /\ \A i \in 1..Len(detected) :
                  resolverCall.serviceNames[i] = Slash(context.packageName, detected[i])
           /\ ( /\ ~isEmpty(resolverCall.enabledServices)
                /\ \E i \in 1..Len(detected) :
                       Slash(context.packageName, detected[i]) \in
                           TrimmedTokens(resolverCall.enabledServices) )
              => resolverCall.ret = TRUE

C12_Witness ==
    LET detected == getAccessibilityServicesFromManifest(context)
    IN /\ IsEnabledDone
       /\ serviceClassName = NULL
       /\ Len(detected) = 2
       /\ resolverCall.enabledServices = Slash(context.packageName, detected[2])
       /\ ~containsString(resolverCall.enabledServices,
                          Slash(context.packageName, detected[1]))
       /\ resolverCall.ret = TRUE

\* C13: isEnabled answers false whenever the enabled-services setting is
\* null or empty, whatever is configured and whatever the candidates are.
C13_EmptyIsFalse ==
    (IsEnabledAnswered /\ isEmpty(resolverCall.enabledServices)) =>
        /\ resolverCall.outcome = "resolved"
        /\ resolverCall.ret = FALSE

C13_Witness ==
    /\ IsEnabledDone
    /\ resolverCall.enabledServices = NULL
    /\ Len(resolverCall.serviceNames) = 2
    /\ serviceClassName = NULL

\* C14: whitespace around an entry of the enabled-services setting does not
\* prevent a match: a candidate that equals an entry once its leading and
\* trailing spaces, tabs and newlines are removed makes isEnabled true.
C14_WhitespaceTolerated ==
    ( /\ IsEnabledDone
      /\ ~isEmpty(resolverCall.enabledServices)
      /\ \E t \in Range(SplitColon(resolverCall.enabledServices)) :
             /\ Trim(t) # t
             /\ Trim(t) \in Range(resolverCall.serviceNames) ) =>
        resolverCall.ret = TRUE

C14_Witness ==
    /\ IsEnabledDone
    /\ resolverCall.ret = TRUE
    /\ \E t \in Range(SplitColon(resolverCall.enabledServices)) :
           /\ "\t" \in Range(t)
           /\ "\n" \in Range(t)
           /\ " " \in Range(t)
           /\ Trim(t) \in Range(resolverCall.serviceNames)
    /\ \A c \in Range(resolverCall.serviceNames) :
           c \notin Range(SplitColon(resolverCall.enabledServices))

\* sub occurs in str, letter case respected.
Occurs(str, sub) ==
    \E i \in 1..(Len(str) - Len(sub) + 1) :
        \A j \in 1..Len(sub) : str[i + j - 1] = sub[j]

\* C15: the membership test is case-sensitive: a setting that holds a
\* candidate only in another letter case makes isEnabled false.
C15_CaseSensitive ==
    ( /\ IsEnabledDone
      /\ ~isEmpty(resolverCall.enabledServices)
      /\ \E c \in Range(resolverCall.serviceNames) :
             Occurs(lowercase(resolverCall.enabledServices), lowercase(c))
      /\ \A c \in Range(resolverCall.serviceNames) :
             ~Occurs(resolverCall.enabledServices, c) ) =>
        resolverCall.ret = FALSE

C15_Witness ==
    /\ IsEnabledDone
    /\ resolverCall.serviceNames = <<Slash(context.packageName, X)>>
    /\ resolverCall.enabledServices = Slash(context.packageName, <<"x">>)
    /\ resolverCall.ret = FALSE

\* An entry that is no "package/class" pair: empty, without a slash, or with
\* nothing before or nothing after its first slash.
Malformed(t) ==
    \/ t = <<>>
    \/ \A i \in 1..Len(t) : t[i] # "/"
    \/ t[1] = "/"
    \/ /\ t[Len(t)] = "/"
       /\ \A i \in 1..(Len(t) - 1) : t[i] # "/"

\* C16: malformed entries of the setting are inert: the test does not throw
\* on them, entries that are all malformed never give true, and a
\* well-formed matching entry among them still gives true.
C16_MalformedInert ==
    LET entries == Range(SplitColon(resolverCall.enabledServices))
    IN ( /\ IsEnabledAnswered
         /\ ~isEmpty(resolverCall.enabledServices)
         /\ serviceClassName # <<>>
         /\ \E t \in entries : Malformed(t) ) =>
           /\ resolverCall.outcome = "resolved"
           /\ (\A t \in entries : Malformed(t)) => resolverCall.ret = FALSE
           /\ (\E t \in entries : t \in Range(resolverCall.serviceNames))
                  => resolverCall.ret = TRUE

\* C17: a failing manifest scan counts as zero detected services:
\* getDetectedServices resolves with the empty list, and isEnabled with no
\* configured name resolves with the fallback identifier as its candidate.
C17_ScanFailureAbsorbed ==
    /\ ( /\ pcRes = "ret"
         /\ resolverCall.op = "getDetectedServices"
         /\ (context.scan = "throws" \/ ~resolverCall.reactContext) ) =>
           /\ resolverCall.outcome = "resolved"
           /\ resolverCall.detected = <<>>
    /\ ( /\ IsEnabledAnswered
         /\ context.scan = "throws"
         /\ serviceClassName = NULL ) =>
           /\ resolverCall.outcome = "resolved"
           /\ resolverCall.serviceNames =
                  <<Slash(context.packageName, DefaultClassName(context.packageName))>>

C17_Witness ==
    /\ IsEnabledAnswered
    /\ context.scan = "throws"
    /\ serviceClassName = NULL
    /\ resolverCall.outcome = "resolved"
    /\ resolverCall.ret = TRUE

\* C18: isEnabled always produces a boolean and never fails, whatever the
\* collaborators it reads do.
C18_NeverFails ==
    (pcRes = "ret" /\ resolverCall.op = "isEnabled") =>
        /\ resolverCall.outcome = "resolved"
        /\ resolverCall.ret \in BOOLEAN

\* C18, as the code has it: isEnabled fails exactly when the React context
\* is missing or the settings query throws; otherwise (a failing manifest
\* scan included) it produces a boolean.
C18_FailsOnQueryOrContext ==
    (pcRes = "ret" /\ resolverCall.op = "isEnabled") =>
        /\ resolverCall.outcome \in {"resolved", "rejected"}
        /\ resolverCall.outcome = "rejected" <=>
               ( \/ ~resolverCall.reactContext
                 \/ resolverCall.enabledServices = QueryThrows )
        /\ resolverCall.outcome = "resolved" => resolverCall.ret \in BOOLEAN

C18_Witness ==
    /\ pcRes = "ret"
    /\ resolverCall.op = "isEnabled"
    /\ resolverCall.reactContext
    /\ resolverCall.enabledServices = QueryThrows
    /\ resolverCall.outcome = "rejected"

\* The step that performs setServiceClassName, and the step that builds a
\* new module instance.
SetStep ==
    pcRes = "idle" /\ pcRes' = "ret" /\ resolverCall'.op = "setServiceClassName"

ConstructStep == pcRes = "idle" /\ pcRes' = "idle"

C20_SameAsOriginal ==
    (IsEnabledDone /\ serviceClassName = NULL) =>
        resolverCall.ret = resolverCall.original

\* The manifest declares no accessibility service under another name than
\* pkg.MyAccessibilityService.
OnlyDefaultDeclared ==
    \/ context.scan # "ok"
    \/ \A i \in 1..Len(context.services) :
           context.services[i].permission = BIND_ACCESSIBILITY_SERVICE =>
               context.services[i].name =
                   context.packageName \o <<".">> \o MyAccessibilityService

\* C20, as the code has it: the answers agree when the manifest declares
\* no accessibility service of another name.
C20_SameWhenOnlyDefault ==
    (IsEnabledDone /\ serviceClassName = NULL /\ OnlyDefaultDeclared) =>
        resolverCall.ret = resolverCall.original

C20_Witness ==
    /\ IsEnabledDone
    /\ serviceClassName = NULL
    /\ context.scan = "ok"
    /\ Len(context.services) = 2
    /\ Len(resolverCall.serviceNames) = 1
    /\ OnlyDefaultDeclared
    /\ resolverCall.ret = TRUE
    /\ resolverCall.original = TRUE
    /\ Len(SplitColon(resolverCall.enabledServices)) = 2

AskPermissionDone == pcRes = "ret" /\ resolverCall.op = "askPermission"

\* C21: askPermission tries once to start the settings activity: the call
\* resolves when the start succeeds and is rejected with "Could not open
\* accessibility settings: <cause message>" when it throws; no retry, and
\* never both a resolve and a reject.
C21_OneAttempt ==
    AskPermissionDone =>
        /\ resolverCall.starts <= 1
        /\ Len(resolverCall.settled) = 1
        /\ (resolverCall.reactContext /\ resolverCall.start.step = "none") =>
               /\ resolverCall.starts = 1
               /\ resolverCall.settled = <<"resolve">>
               /\ resolverCall.outcome = "resolved"
        /\ (resolverCall.reactContext /\ resolverCall.start.step # "none") =>
               /\ resolverCall.settled = <<"reject">>
               /\ resolverCall.outcome = "rejected"
               /\ resolverCall.message =
                      "Could not open accessibility settings: "
                          \o resolverCall.start.message
        /\ ~resolverCall.reactContext =>
               /\ resolverCall.starts = 0
               /\ resolverCall.settled = <<"reject">>
               /\ resolverCall.outcome = "rejected"

C21_Witness ==
    /\ AskPermissionDone
    /\ resolverCall.starts = 1
    /\ resolverCall.outcome = "rejected"
    /\ resolverCall.message = "Could not open accessibility settings: Activity not found"

\* The registration made by the k-th addAccessibilityEventListener call.
RegistrationOf(registrations, k) == {r \in Range(registrations) : r.id = k}

\* C22: each addAccessibilityEventListener call puts its callback on the
\* 'onAccessibilityEvent' channel and returns a subscription of its own;
\* remove() on one subscription makes one native remove call, removes that
\* registration only and leaves every other one registered.
C22_OwnSubscription ==
    [][ /\ jsCall'.op = "addAccessibilityEventListener" =>
             /\ Len(subscriptions') = Len(subscriptions) + 1
             /\ jsCall'.sub = Len(subscriptions')
             /\ emitter' = Append(emitter, [id |-> jsCall'.sub,
                                            eventName |-> "onAccessibilityEvent",
                                            listener |-> jsCall'.listener])
       /\ jsCall'.op = "remove" =>
             /\ Len(jsCall'.removed) = 1
             /\ RegistrationOf(emitter', jsCall'.sub) = {}
             /\ \A k \in 1..Len(subscriptions) :
                    k # jsCall'.sub =>
                        RegistrationOf(emitter', k) = RegistrationOf(emitter, k)
             /\ subscriptions' = subscriptions ]_vars

C22_Witness ==
    /\ jsCall.op = "remove"
    /\ jsCall.sub = 2
    /\ Len(subscriptions) = 3
    /\ Len(emitter) = 2
    /\ emitter[1].id = 1
    /\ emitter[2].id = 3
    /\ emitter[1].listener # emitter[2].listener

WrapperNames == {"isEnabled", "askPermission", "setServiceClassName", "getDetectedServices"}

\* C23: each wrapper calls the native method of its name exactly once with
\* the arguments it got and returns that call's outcome unchanged: a value
\* as it is, a rejection with the same error.
C23_WrapperPassesThrough ==
    jsCall.op \in WrapperNames =>
        /\ Len(jsCall.nativeCalls) = 1
        /\ jsCall.nativeCalls[1].method = jsCall.op
        /\ jsCall.nativeCalls[1].args = jsCall.args
        /\ jsCall.result.kind = jsCall.native.kind
        /\ jsCall.result.value = jsCall.native.value

C23_Witness ==
    /\ jsCall.op = "setServiceClassName"
    /\ jsCall.args = <<XY>>
    /\ jsCall.native.kind = "rejected"
    /\ jsCall.result = [kind |-> "rejected", value |-> "Native module error"]

\* A step of forEach: the loop moves on to the next listener of the snapshot.
InvokeStep == pcSvc = "loop" /\ pcSvc' = "loop" /\ idx' = idx + 1

\* C24: a listener of the snapshot that was removed before its turn is
\* still invoked for that event; a dispatch invokes no listener that was
\* not registered when it took its snapshot.
C24_RemovedStillInvoked ==
    [][ InvokeStep =>
            /\ invoked' = Append(invoked, [listener |-> listeners[idx],
                                           packageName |-> packageName,
                                           className |-> className,
                                           timestamp |-> timestamp])
            /\ listeners[idx] \in regAtSnapshot ]_vars

\* The turn of a listener that is no longer registered is about to come.
C24_Witness ==
    /\ pcSvc = "loop"
    /\ idx = 2
    /\ Len(listeners) = 2
    /\ Len(invoked) = 1
    /\ listeners[2] \notin Range(eventListeners)

\* C25: the callbacks run outside the monitor of the registry: while the
\* forEach of a dispatch is under way (a callback running, however long) the
\* monitor is free and every registry operation of the application context
\* can be carried out.
C25_CallbacksOutsideLock ==
    pcSvc = "loop" =>
        /\ mutex = "none"
        /\ pcApp = "idle" =>
               \A l \in Listeners :
                   /\ ENABLED addEventListener(l)
                   /\ ENABLED removeEventListener(l)
                   /\ ENABLED setEventListener_clear(l)
        /\ pcApp = "setAdd" => ENABLED setEventListener_add

C25_Witness ==
    /\ pcSvc = "loop"
    /\ idx = 1
    /\ Len(listeners) = 2
    /\ pcApp = "ret"
    /\ appCall.op = "remove"
    /\ appCall.ret = TRUE
    /\ appCall.arg = listeners[1]

\* Both contexts have a call of op on l that has not returned, and the call
\* of second ran directly after the call of first.
ConcurrentPair(first, second, op, l) ==
    /\ first # second
    /\ pcThread[first] = "ret" /\ pcThread[second] = "ret"
    /\ threadCall[first].op = op /\ threadCall[second].op = op
    /\ threadCall[first].arg = l /\ threadCall[second].arg = l
    /\ threadCall[second].last /\ threadCall[second].follows

\* C26: however addEventListener, removeEventListener, setEventListener and
\* notifyListeners of two execution contexts interleave, the registry and
\* every snapshot hold each listener at most once, an add returns true
\* exactly when its listener was not registered and a remove exactly when it
\* was, and of two concurrent add calls for a listener that was not
\* registered (two concurrent remove calls for one that was) the first
\* returns true and the second false.
C26_ConcurrentCalls ==
    /\ Cardinality(Range(eventListeners)) = Len(eventListeners)
    /\ \A t \in Threads :
           /\ Cardinality(Range(threadCall[t].snapshot)) = Len(threadCall[t].snapshot)
           /\ threadCall[t].op = "add" => threadCall[t].ret = ~threadCall[t].present
           /\ threadCall[t].op = "remove" => threadCall[t].ret = threadCall[t].present
           /\ threadCall[t].last /\ threadCall[t].op = "add" =>
                  contains(eventListeners, threadCall[t].arg)
           /\ threadCall[t].last /\ threadCall[t].op = "remove" =>
                  ~contains(eventListeners, threadCall[t].arg)
    /\ \A first \in Threads, second \in Threads, l \in Listeners :
           /\ ConcurrentPair(first, second, "add", l) /\ ~threadCall[first].present =>
                  threadCall[first].ret /\ ~threadCall[second].ret
           /\ ConcurrentPair(first, second, "remove", l) /\ threadCall[first].present =>
                  threadCall[first].ret /\ ~threadCall[second].ret

\* Two add calls for the same unregistered listener are both outstanding.
C26_Witness ==
    \E first \in Threads, second \in Threads, l \in Listeners :
        /\ ConcurrentPair(first, second, "add", l)
        /\ ~threadCall[first].present
        /\ Len(eventListeners) = 2

\* A step in which the application runs a statement of addEventListener,
\* removeEventListener or setEventListener.
RegistryCall == pcApp' # pcApp /\ pcApp' # "idle"

\* C27: the registry changes only in a step of addEventListener,
\* removeEventListener or setEventListener, or in a callback that makes one
\* such call itself; taking the snapshot, a callback that throws, returning
\* from the dispatch and the lifecycle callbacks leave it as it is.
C27_OnlyRegistryCalls ==
    [][/\ eventListeners' # eventListeners =>
              \/ RegistryCall
              \/ /\ InvokeStep
                 /\ \E l \in Listeners :
                        eventListeners' \in {add(eventListeners, l), remove(eventListeners, l)}
       /\ service' # service => eventListeners' = eventListeners
       /\ pcSvc' # pcSvc => eventListeners' = eventListeners
      ]_vars

\* The service was destroyed and both listeners are registered.
C27_Witness ==
    /\ service = "destroyed"
    /\ Len(eventListeners) = 2
    /\ pcApp = "idle"

\* A resolution that ran while setServiceClassName could run has its list.
ResolutionDone == pcRes = "ret" /\ resolverCall.op = "getServiceNamesToCheck"

\* C28: a resolution that races with setServiceClassName returns the single
\* identifier of the name it found configured or of the name written
\* meanwhile, or, if it found none configured, the detected or fallback
\* list; never an identifier of a missing name, never part of a name, never
\* a list of both kinds.
C28_OneWholeValue ==
    ResolutionDone =>
        LET pkg == context.packageName
            old == resolverCall.arg
            new == serviceClassName
            names == resolverCall.serviceNames
        IN /\ old # NULL => new # NULL /\ names \in {<<Slash(pkg, old)>>, <<Slash(pkg, new)>>}
           /\ old = NULL =>
                  names = IF Len(resolverCall.detected) # 0
                          THEN [i \in 1..Len(resolverCall.detected) |->
                                    Slash(pkg, resolverCall.detected[i])]
                          ELSE <<Slash(pkg, DefaultClassName(pkg))>>
           /\ \A i \in 1..Len(names) : names[i] # Slash(pkg, template(NULL))

\* The name was replaced between the two reads and the old one was used.
C28_Witness ==
    /\ ResolutionDone
    /\ resolverCall.arg = X
    /\ serviceClassName = XY
    /\ resolverCall.serviceNames = <<Slash(context.packageName, X)>>

\* onAccessibilityEvent received an event and forwards it.
ReceiptStep == pcSvc = "idle" /\ pcSvc' = "call"

\* C29: the timestamp of a forwarded event is the clock value at the moment
\* onAccessibilityEvent receives it, when no listener has been invoked yet;
\* it does not change while the listeners are invoked, whatever time
\* passes, and every listener is handed it; it is not smaller than the
\* timestamp of the event forwarded before.
C29_CaptureTime ==
    [][/\ ReceiptStep =>
              /\ timestamp' = clock
              /\ timestamp' >= timestamp
              /\ invoked' = <<>>
       /\ pcSvc \in {"call", "loop"} => timestamp' = timestamp
       /\ InvokeStep =>
              \A i \in 1..Len(invoked') : invoked'[i].timestamp = timestamp
      ]_vars

\* Time passed between the receipt of the event and the second callback.
C29_Witness ==
    /\ LoopDone
    /\ Len(invoked) = 2
    /\ clock > timestamp

\* "$packageName/${packageName}.MyAccessibilityService"
FallbackIdentifier == Slash(context.packageName, DefaultClassName(context.packageName))

\* The list a single rule gives: rule 1 when a name is configured, rule 2
\* when none is and the scan found something, rule 3 otherwise.
ByOneRule(names) ==
    LET pkg == context.packageName
        detected == getAccessibilityServicesFromManifest(context)
    IN /\ Len(names) >= 1
       /\ serviceClassName # NULL => names = <<Slash(pkg, serviceClassName)>>
       /\ serviceClassName = NULL /\ Len(detected) > 0 =>
              /\ Len(names) = Len(detected)
              /\ \A i \in 1..Len(names) : names[i] = Slash(pkg, detected[i])
       /\ serviceClassName = NULL /\ Len(detected) = 0 => names = <<FallbackIdentifier>>

\* C30, as stated: the candidate list of every resolution is non-empty and
\* the list of exactly one rule, and the fallback identifier is in it only
\* when no name is configured and nothing was detected.
C30_FallbackOnlyWhenNothing ==
    IsEnabledDone =>
        /\ ByOneRule(resolverCall.serviceNames)
        /\ contains(resolverCall.serviceNames, FallbackIdentifier) =>
               /\ serviceClassName = NULL
               /\ getAccessibilityServicesFromManifest(context) = <<>>

\* C30, as the code has it: the candidate list of every resolution is
\* non-empty and the list of exactly one rule; the fallback identifier is in
\* it when rule 3 applies, and also when the configured name or a detected
\* name is pkg.MyAccessibilityService.
C30_ExactlyOneRule ==
    IsEnabledDone =>
        /\ ByOneRule(resolverCall.serviceNames)
        /\ contains(resolverCall.serviceNames, FallbackIdentifier) =>
               \/ /\ serviceClassName = NULL
                  /\ getAccessibilityServicesFromManifest(context) = <<>>
               \/ serviceClassName = DefaultClassName(context.packageName)
               \/ /\ serviceClassName = NULL
                  /\ contains(getAccessibilityServicesFromManifest(context),
                              DefaultClassName(context.packageName))

\* Rule 2 on a manifest that declares X and pkg.MyAccessibilityService.
C30_Witness ==
    /\ IsEnabledDone
    /\ serviceClassName = NULL
    /\ resolverCall.serviceNames =
           <<Slash(context.packageName, X), FallbackIdentifier>>

\* getEventListener of context t hands its result to the caller: at once
\* when the set had no element, otherwise after next().
GetDone(t) ==
    /\ pcThread[t] # "ret" /\ pcThread'[t] = "ret"
    /\ threadCall'[t].op = "get"

\* C31: getEventListener returns null exactly when the registry it looked
\* at was empty, otherwise a listener registered in it (the only one, when
\* there is one), and it leaves the registry unchanged.
C31_FirstOrNull ==
    [][\A t \in Threads :
          GetDone(t) =>
              LET seen == threadCall'[t].snapshot
                  result == threadCall'[t].listener
              IN /\ ~threadCall'[t].thrown
                 /\ result = NoListener <=> seen = <<>>
                 /\ seen # <<>> => result \in Range(seen)
                 /\ Len(seen) = 1 => result = seen[1]
                 /\ eventListeners' = eventListeners
      ]_vars

\* MyAccessibilityService (single-listener version): the slot eventListener
\* after the setEventListener calls made so far, null before the first.
SingleSlot == IF lastSet = NotSet THEN NoListener ELSE lastSet

referenceIsEnabled(serviceNames, enabledServices) ==
    /\ ~isEmpty(enabledServices)
    /\ \E i \in 1..Len(serviceNames) :
           serviceNames[i] \in Range([k \in 1..Len(SplitColon(enabledServices)) |->
                                         Trim(SplitColon(enabledServices)[k])])

\* C33: whenever the split-trim-exact reference finds a candidate among the
\* entries of the setting, isAccessibilityServiceEnabled returns true.
C33_NoFalseNegative ==
    ( /\ IsEnabledDone
      /\ referenceIsEnabled(resolverCall.serviceNames, resolverCall.enabledServices) ) =>
        resolverCall.ret

\* The second of two candidates is the second of two entries, and the first
\* candidate is nowhere in the setting.
C33_Witness ==
    /\ IsEnabledDone
    /\ Len(resolverCall.serviceNames) = 2
    /\ Len(SplitColon(resolverCall.enabledServices)) = 2
    /\ resolverCall.serviceNames[2] = SplitColon(resolverCall.enabledServices)[2]
    /\ ~Occurs(resolverCall.enabledServices, resolverCall.serviceNames[1])
    /\ resolverCall.ret

ModuleRegistered == contains(eventListeners, ModuleListener)

\* The iteration of forEach that invokes the module.
ModuleTurn == InvokeStep /\ listeners[idx] = ModuleListener

\* The dispatch takes its snapshot.
SnapshotStep == pcSvc = "call" /\ pcSvc' = "loop"

\* C35, as stated: the module is registered exactly from its OnCreate to
\* its OnDestroy; a dispatch that takes its snapshot in between invokes the
\* module, which emits 'onAccessibilityEvent' with the event's package name,
\* class name and timestamp; a dispatch that takes its snapshot after
\* OnDestroy does not invoke it.
C35_RegisteredWhileAlive ==
    [][/\ ModuleRegistered' <=> module' = "created"
       /\ SnapshotStep => (contains(listeners', ModuleListener) <=> module = "created")
       /\ ModuleTurn =>
              sent' = [name |-> "onAccessibilityEvent",
                       packageName |-> event.packageName,
                       className |-> event.className,
                       timestamp |-> timestamp,
                       outcome |-> "emitted"]
      ]_vars

\* C35, as the code has it: the module is registered by OnCreate and only
\* then, and while it is alive only OnDestroy or the clear of a
\* setEventListener unregisters it; a dispatch whose snapshot holds the
\* module calls its onAppChanged, which hands 'onAccessibilityEvent' with
\* the event's package name, class name and timestamp to sendEvent and
\* swallows what sendEvent throws; a dispatch that takes its snapshot after
\* OnDestroy does not invoke the module.
C35_RegisteredUnlessReplaced ==
    [][/\ ModuleRegistered' => module' = "created"
       /\ (~ModuleRegistered /\ ModuleRegistered') => (module = "none" /\ module' = "created")
       /\ (ModuleRegistered /\ ~ModuleRegistered') =>
              \/ module = "created" /\ module' = "destroyed"
              \/ pcApp = "idle" /\ pcApp' = "setAdd"
       /\ SnapshotStep =>
              /\ contains(listeners', ModuleListener) <=> ModuleRegistered
              /\ module = "destroyed" => ~contains(listeners', ModuleListener)
       /\ ModuleTurn =>
              /\ sent'.name = "onAccessibilityEvent"
              /\ sent'.packageName = event.packageName
              /\ sent'.className = event.className
              /\ sent'.timestamp = timestamp
              /\ sent'.outcome \in {"emitted", "Exception"}
              /\ threw' = threw
       /\ (LoopDone /\ pcSvc' = "idle") => regAtSnapshot \subseteq InvokedListeners
      ]_vars

\* OnDestroy ran during the dispatch, before the module's turn, and the
\* event was emitted all the same, after another listener's callback.
C35_Witness ==
    /\ LoopDone
    /\ module = "destroyed"
    /\ Len(invoked) = 2
    /\ invoked[2].listener = ModuleListener
    /\ sent.outcome = "emitted"
    /\ sent.timestamp = timestamp

\* The execution of isEnabled, and of getDetectedServices.
IsEnabledStep == pcRes = "idle" /\ pcRes' = "ret" /\ resolverCall'.op = "isEnabled"
GetDetectedStep ==
    pcRes = "idle" /\ pcRes' = "ret" /\ resolverCall'.op = "getDetectedServices"

\* C36: isEnabled and getDetectedServices leave the configured class name,
\* the manifest and the listener registry as they were, setServiceClassName
\* changes the configured class name and nothing else of them; the result
\* of isEnabled is determined by the configured name, the manifest and the
\* enabled-services string, and an isEnabled call that follows another one
\* with the same inputs ends as that one did.
C36_ReadOnly ==
    [][/\ (IsEnabledStep \/ GetDetectedStep) =>
              UNCHANGED <<serviceClassName, context, registryVars, jsVars>>
       /\ SetStep =>
              /\ serviceClassName' = resolverCall'.arg
              /\ UNCHANGED <<context, registryVars, jsVars>>
       /\ (IsEnabledStep /\ resolverCall'.outcome = "resolved") =>
              resolverCall'.ret =
                  isAccessibilityServiceEnabled(context', serviceClassName',
                                                resolverCall'.enabledServices)
       /\ ( /\ IsEnabledStep
            /\ resolverCall.op = "isEnabled"
            /\ resolverCall'.enabledServices = resolverCall.enabledServices
            /\ resolverCall'.reactContext = resolverCall.reactContext ) =>
              /\ resolverCall'.outcome = resolverCall.outcome
              /\ resolverCall'.ret = resolverCall.ret
      ]_vars

\* isEnabled answered true for a configured name, with services declared in
\* the manifest, and the configuration is what it was.
C36_Witness ==
    /\ IsEnabledDone
    /\ resolverCall.ret
    /\ serviceClassName = X
    /\ getAccessibilityServicesFromManifest(context) # <<>>

\* onAccessibilityEvent returns after a dispatch.
ReturnStep == pcSvc = "loop" /\ pcSvc' = "idle"

\* How often the dispatch in progress has invoked the listener.
Invocations(l) == Cardinality({i \in 1..Len(invoked) : invoked[i].listener = l})

\* C37: an event is received only when the dispatch of the event before has
\* returned, and a dispatch returns only when it has invoked every listener
\* of its snapshot once, in the order of the snapshot; each invocation hands
\* over the event that was received last, and timestamps follow the order
\* of receipt: a listener that stays registered gets the forwarded events
\* in the order they were received, each one once.
C37_OneEventAtATime ==
    [][/\ ReceiptStep =>
              /\ invoked = <<>>
              /\ timestamp' >= timestamp
       /\ InvokeStep =>
              invoked' = Append(invoked, [listener |-> listeners[idx],
                                          packageName |-> event.packageName,
                                          className |-> event.className,
                                          timestamp |-> timestamp])
       /\ ReturnStep =>
              /\ Len(invoked) = Len(listeners)
              /\ \A i \in 1..Len(listeners) : invoked[i].listener = listeners[i]
              /\ \A l \in regAtSnapshot : Invocations(l) = 1
              /\ \A l \in Listeners \ regAtSnapshot : Invocations(l) = 0
      ]_vars

\* A later event (the clock has advanced) has been handed to two listeners,
\* both still registered.
C37_Witness ==
    /\ LoopDone
    /\ timestamp > 0
    /\ Len(invoked) >= 2
    /\ \A i \in 1..Len(invoked) :
           /\ invoked[i].timestamp = timestamp
           /\ contains(eventListeners, invoked[i].listener)

\* The iterations the dispatch in progress still has to make.
Remaining == Len(listeners) - (idx - 1)

\* C38: the snapshot does not change during a dispatch, whatever the
\* callbacks add to or remove from the registry; every iteration invokes
\* one callback and leaves one iteration less to make, so a dispatch makes
\* as many invocations as its snapshot has listeners, and, when every
\* callback returns, every dispatch that has started returns.
C38_DispatchTerminates ==
    /\ [][/\ InvokeStep =>
                 /\ listeners' = listeners
                 /\ Len(invoked') = Len(invoked) + 1
                 /\ Remaining' = Remaining - 1
                 /\ Remaining' >= 0
          /\ (pcSvc = "loop" /\ pcSvc' = "loop") =>
                 /\ listeners' = listeners
                 /\ Remaining' <= Remaining
          /\ SnapshotStep =>
                 /\ Len(listeners') = Cardinality(Range(eventListeners))
                 /\ Remaining' = Len(listeners')
          /\ ReturnStep =>
                 /\ Remaining = 0
                 /\ Len(invoked) = Cardinality(regAtSnapshot)
         ]_vars
    /\ (pcSvc = "call") ~> (pcSvc = "idle")

\* A dispatch has made as many invocations as its snapshot had listeners
\* although a callback registered a listener that the snapshot did not hold.
C38_Witness ==
    /\ LoopDone
    /\ Len(invoked) = Len(listeners)
    /\ Len(invoked) >= 1
    /\ lateAdded # {}
    /\ Len(eventListeners) > Len(listeners)

====
